---- MODULE Spec2Model ----
(***************************************************************************)
(* State-machine model of the RTOS kernel core of this repository:         *)
(* task manager (src/src/task_manager.c), scheduler (src/src/scheduler.c)  *)
(* and message queues (src/src/queue_manager.c).                           *)
(*                                                                         *)
(* The kernel globals are the variables.  Every kernel function is a pure  *)
(* operator from a snapshot K of the globals to the snapshot after the     *)
(* call, written statement by statement after the C code; every public     *)
(* API call is one action (Call_<function>) that applies the operator.     *)
(* A pointer to a TCB is the index of its slot in task_table, the null     *)
(* pointer is NULL; a task id is a number, 0xFF (NoTask) meaning "none".   *)
(***************************************************************************)
EXTENDS Integers, Sequences, FiniteSets, TLC

(***************************************************************************)
(* Program constants                                                       *)
(***************************************************************************)
MAX_TASKS == 8
TIME_SLICE_MS == 10
TICK_RATE_HZ == 1000
SCHEDULER_PRIORITY_LEVELS == 5
PRIORITY_IDLE == 0
PRIORITY_CRITICAL == 4
MAX_QUEUES == 4
MAX_QUEUE_SIZE == 16
MAX_SEMAPHORES == 4
SEMAPHORE_MAX_COUNT == 255
MAX_SOFTWARE_TIMERS == 8
TIMER_INVALID_ID == 255
MEMORY_ALIGNMENT == 4
MIN_BLOCK_SIZE == 16
MEMORY_MAGIC_FREE == 57005
MEMORY_MAGIC_USED == 48879
\* sizeof(memory_block_t) on the 32-bit target: two uint16_t, two pointers
sizeof_memory_block_t == 12
\* 0xFFFFFFFF; TLC's integers are 32-bit signed, so the word is written as
\* the signed integer with the same bit pattern (only compared for equality)
QUEUE_TIMEOUT_INFINITE == -1
NoTask == 255
NULL == -2

(***************************************************************************)
(* Bounds of the model (the environment's inputs)                          *)
(***************************************************************************)
\* most tasks alive at once, the idle task included
MaxLive == 3
\* largest argument of task_delay
MaxDelay == 2
\* highest priority the environment passes to task_create
MaxPrio == 2
\* number of scheduler ticks in a run of Spec
MaxTicks == 3
\* most tasks alive at once, and number of ticks, in a run of SpecRR
MaxLiveRR == 4
MaxTicksRR == 45
MaxTicksPre == 21
\* number of queue ids the environment uses
MaxQueues == 1
\* largest size the environment passes to queue_create
MaxQueueSize == 2
\* the values sent are 1 .. MaxVal
MaxVal == 2
\* successful sends recorded per queue between two queue_create calls
MaxSends == 3
\* longest waiter list the environment lets build up
MaxWaiting == 2
\* semaphores in use, and the largest count a semaphore is created with
MaxSems == 1
\* live tasks, the idle task included, while the semaphores are exercised
MaxLiveSem == 2
MaxCount == 2
\* software timers in use, their longest period, and the timer interrupts
\* taken
MaxTimers == 1
MaxPeriod == 3
MaxTimerTicks == 7
\* the heap in 4-byte words, and the allocator calls counted in its
\* statistics
MaxHeapWords == 16
MaxMemCalls == 7
\* ticks taken into account on either side of a value of the tick counter
MaxWindow == 40

VARIABLES
    task_table,         \* task_manager.c: tcb_t task_table[MAX_TASKS]
    task_count,         \* task_manager.c: number of active tasks
    current_task_id,    \* task_manager.c: currently running task id
    ready_queues,       \* scheduler.c: head TCB of each priority's ring
    scheduler_running,  \* scheduler.c
    scheduler_locked,   \* scheduler.c
    idle_task_id,       \* scheduler.c
    total_scheduler_calls, \* scheduler.c: stats.total_scheduler_calls
    queues,             \* queue_manager.c: queue_t queues[MAX_QUEUES]
    semaphores,         \* queue_manager.c: semaphore_t semaphores[]
    software_timers,    \* timer_manager.c: software_timer_t software_timers[]
    timer_running,      \* timer_manager.c
    system_tick_counter, \* timer_manager.c
    heap,               \* memory_manager.c: uint8_t heap[], by words
    free_list,          \* memory_manager.c
    stats,              \* memory_manager.c: memory_stats_t stats
    PRIMASK,            \* arm_cortex_m.h: the interrupt mask register, 1
                        \* when interrupts are disabled
    pc,                 \* per task, the call of queue_manager.c it was
                        \* preempted in, after the call's critical section
    handed,             \* history: the pointers the allocator returned
    timer_log,          \* history: per software timer, since its last
                        \* timer_start_timer / timer_reset_timer: the
                        \* interrupts taken, the callbacks run, and
                        \* whether it was left alone
    sent,               \* history: per queue, the values of successful sends
    received            \* history: per queue, the values successful receives
                        \* returned, since the queue was created

vars == <<task_table, task_count, current_task_id, ready_queues,
          scheduler_running, scheduler_locked, idle_task_id,
          total_scheduler_calls, queues, semaphores, software_timers,
          timer_running, system_tick_counter, heap, free_list, stats, PRIMASK,
          pc, handed, timer_log, sent, received>>

TaskIds == 0 .. (MAX_TASKS - 1)
QueueIds == 0 .. (MAX_QUEUES - 1)
SemaphoreIds == 0 .. (MAX_SEMAPHORES - 1)
TimerIds == 0 .. (MAX_SOFTWARE_TIMERS - 1)
Priorities == 0 .. (SCHEDULER_PRIORITY_LEVELS - 1)

\* the elements of a sequence
Range(seq) == {seq[i] : i \in 1 .. Len(seq)}

\* the snapshot of the kernel globals an operator works on; ret is the value
\* the call returns (an output of the call, not part of the state) and
\* returns is whether the call comes back at all
K ==
    [task_table |-> task_table, task_count |-> task_count,
     current_task_id |-> current_task_id, ready_queues |-> ready_queues,
     scheduler_running |-> scheduler_running,
     scheduler_locked |-> scheduler_locked,
     idle_task_id |-> idle_task_id,
     total_scheduler_calls |-> total_scheduler_calls, queues |-> queues,
     semaphores |-> semaphores, software_timers |-> software_timers,
     timer_running |-> timer_running,
     system_tick_counter |-> system_tick_counter,
     heap |-> heap, free_list |-> free_list, stats |-> stats,
     PRIMASK |-> PRIMASK,
     ret |-> "void", out |-> 0, returns |-> TRUE]

\* the globals after a call are those of snapshot k
Globals(k) ==
    /\ task_table' = k.task_table
    /\ task_count' = k.task_count
    /\ current_task_id' = k.current_task_id
    /\ ready_queues' = k.ready_queues
    /\ scheduler_running' = k.scheduler_running
    /\ scheduler_locked' = k.scheduler_locked
    /\ idle_task_id' = k.idle_task_id
    /\ total_scheduler_calls' = k.total_scheduler_calls
    /\ queues' = k.queues
    /\ semaphores' = k.semaphores
    /\ software_timers' = k.software_timers
    /\ timer_running' = k.timer_running
    /\ system_tick_counter' = k.system_tick_counter
    /\ heap' = k.heap
    /\ free_list' = k.free_list
    /\ stats' = k.stats
    /\ PRIMASK' = k.PRIMASK

\* a call that is no successful queue_send, queue_receive or queue_create
Becomes(k) ==
    Globals(k) /\ UNCHANGED <<sent, received, timer_log, handed, pc>>

Returning(k, r) == [k EXCEPT !.ret = r]

(***************************************************************************)
(* arm_cortex_m.h, rtos_config.h: the critical-section primitives.  The    *)
(* calls of scheduler.c and timer_manager.c below carry their critical     *)
(* sections; the other calls are applied with interrupts enabled only,     *)
(* where entering and leaving a critical section leaves PRIMASK at 0.      *)
(***************************************************************************)
\* MRS result, PRIMASK; CPSID I: the previous mask is the value returned
disable_irq(k) == [k EXCEPT !.PRIMASK = 1, !.out = k.PRIMASK]

\* CPSIE I
enable_irq(k) == [k EXCEPT !.PRIMASK = 0]

\* the macro drops the mask that __disable_irq returns
ENTER_CRITICAL(k) == [disable_irq(k) EXCEPT !.out = k.out]

EXIT_CRITICAL(k) == enable_irq(k)

(***************************************************************************)
(* task_manager.c                                                          *)
(***************************************************************************)
\* a queue slot after queue_manager_init; buffer is the sequence of the
\* allocated words (word i of the C array is buffer[i + 1]), <<>> when the
\* pointer is null; a waiter array is the sequence of its first
\* *_waiting_count entries
InactiveQueue ==
    [buffer |-> <<>>, size |-> 0, head |-> 0, tail |-> 0, count |-> 0,
     is_active |-> FALSE, send_waiting_tasks |-> <<>>,
     receive_waiting_tasks |-> <<>>]

\* a slot after memset + the loop of task_manager_init
DeletedTcb ==
    [task_id |-> NoTask, priority |-> 0, state |-> "DELETED",
     time_slice_remaining |-> 0, delay_ticks |-> 0,
     next |-> NULL, prev |-> NULL]

task_get_current(k) ==
    IF k.current_task_id >= MAX_TASKS THEN NULL ELSE k.current_task_id

task_get_tcb(k, task_id) ==
    IF task_id >= MAX_TASKS THEN NULL
    ELSE IF k.task_table[task_id].state = "DELETED" THEN NULL
    ELSE task_id

task_set_state(k, task_id, new_state) ==
    IF task_id >= MAX_TASKS THEN Returning(k, "RTOS_INVALID_PARAM")
    ELSE IF k.task_table[task_id].state = "DELETED"
    THEN Returning(k, "RTOS_ERROR")
    ELSE [k EXCEPT !.task_table[task_id].state = new_state,
                   !.current_task_id =
                       IF new_state = "RUNNING" THEN task_id ELSE @,
                   !.ret = "RTOS_SUCCESS"]

task_get_free_id(k) ==
    LET free == {i \in TaskIds : k.task_table[i].state = "DELETED"}
    IN  IF free = {} THEN NoTask
        ELSE CHOOSE i \in free : \A j \in free : i <= j

(***************************************************************************)
(* scheduler.c                                                             *)
(***************************************************************************)
scheduler_add_ready_task(k, tcb) ==
    LET priority == k.task_table[tcb].priority
        head == k.ready_queues[priority]
    IN  IF tcb = NULL \/ priority >= SCHEDULER_PRIORITY_LEVELS THEN k
        ELSE IF head = NULL
        THEN [k EXCEPT !.ready_queues[priority] = tcb,
                       !.task_table[tcb].next = tcb,
                       !.task_table[tcb].prev = tcb]
        ELSE LET tail == k.task_table[head].prev
                 t1 == [k.task_table EXCEPT ![tcb].next = head]
                 t2 == [t1 EXCEPT ![tcb].prev = tail]
                 t3 == [t2 EXCEPT ![tail].next = tcb]
                 t4 == [t3 EXCEPT ![head].prev = tcb]
             IN  [k EXCEPT !.task_table = t4]

scheduler_remove_ready_task(k, tcb) ==
    LET priority == k.task_table[tcb].priority
        head == k.ready_queues[priority]
        nx == k.task_table[tcb].next
        pv == k.task_table[tcb].prev
    IN  IF tcb = NULL \/ priority >= SCHEDULER_PRIORITY_LEVELS THEN k
        ELSE IF head = NULL THEN k
        ELSE LET k1 == IF nx = tcb
                       THEN [k EXCEPT !.ready_queues[priority] = NULL]
                       ELSE LET t1 == [k.task_table EXCEPT ![pv].next = nx]
                                t2 == [t1 EXCEPT ![t1[tcb].next].prev =
                                                     t1[tcb].prev]
                            IN  [k EXCEPT !.task_table = t2,
                                          !.ready_queues[priority] =
                                              IF head = tcb THEN t2[tcb].next
                                              ELSE @]
             IN  [k1 EXCEPT !.task_table[tcb].next = NULL,
                            !.task_table[tcb].prev = NULL]

\* scheduler_find_highest_priority_task searching from the lowest priority up
scheduler_find_lowest_priority_task(k) ==
    LET ne == {p \in Priorities : k.ready_queues[p] # NULL}
    IN  IF ne = {} THEN NULL
        ELSE k.ready_queues[CHOOSE p \in ne : \A q \in ne : p <= q]

scheduler_find_highest_priority_task(k) ==
    LET ne == {p \in Priorities : k.ready_queues[p] # NULL}
    IN  IF ne = {} THEN NULL
        ELSE k.ready_queues[CHOOSE p \in ne : \A q \in ne : q <= p]

scheduler_get_next_task(k) ==
    IF k.scheduler_locked THEN task_get_current(k)
    ELSE LET next_task == scheduler_find_highest_priority_task(k)
         IN  IF next_task = NULL THEN task_get_tcb(k, k.idle_task_id)
             ELSE next_task

scheduler_switch_context(k) ==
    IF ~k.scheduler_running \/ k.scheduler_locked THEN k
    ELSE LET current_task == task_get_current(k)
             next_task == scheduler_get_next_task(k)
         IN  IF next_task = NULL \/ next_task = current_task THEN k
             ELSE LET k1 == IF /\ current_task # NULL
                               /\ k.task_table[current_task].state = "RUNNING"
                            THEN [k EXCEPT
                                    !.task_table[current_task].state = "READY",
                                    !.task_table[current_task]
                                        .time_slice_remaining = TIME_SLICE_MS]
                            ELSE k
                  IN  task_set_state(k1, k1.task_table[next_task].task_id,
                                     "RUNNING")

\* fault seeded for C5: the ready-queue head is not rotated at slice expiry
scheduler_round_robin_next_no_rotation(k, priority) == k

scheduler_round_robin_next(k, priority) ==
    IF priority >= SCHEDULER_PRIORITY_LEVELS \/ k.ready_queues[priority] = NULL
    THEN k
    ELSE [k EXCEPT !.ready_queues[priority] =
                       k.task_table[k.ready_queues[priority]].next]

scheduler_start(k) ==
    LET k1 == [k EXCEPT !.scheduler_running = TRUE]
        first_task == scheduler_get_next_task(k1)
    IN  IF first_task # NULL
        THEN task_set_state(k1, k1.task_table[first_task].task_id, "RUNNING")
        ELSE k1

scheduler_yield(k) ==
    LET current_task == task_get_current(k)
    IN  IF current_task # NULL
        THEN scheduler_switch_context(
                 [k EXCEPT !.task_table[current_task].time_slice_remaining =
                               TIME_SLICE_MS])
        ELSE k

scheduler_lock(k) ==
    EXIT_CRITICAL([ENTER_CRITICAL(k) EXCEPT !.scheduler_locked = TRUE])

scheduler_unlock(k) ==
    scheduler_switch_context(
        EXIT_CRITICAL([ENTER_CRITICAL(k) EXCEPT !.scheduler_locked = FALSE]))

(***************************************************************************)
(* task_manager.c, the calls that use the scheduler                        *)
(***************************************************************************)
\* alloc_ok: whether memory_alloc(stack_size) returned a block
task_create(k, priority, alloc_ok) ==
    IF priority > PRIORITY_CRITICAL THEN Returning(k, NoTask)
    ELSE IF k.task_count >= MAX_TASKS THEN Returning(k, NoTask)
    ELSE LET task_id == task_get_free_id(k)
         IN  IF task_id = NoTask THEN Returning(k, NoTask)
             ELSE IF ~alloc_ok THEN Returning(k, NoTask)
             ELSE LET k1 == [k EXCEPT
                              !.task_table[task_id].task_id = task_id,
                              !.task_table[task_id].priority = priority,
                              !.task_table[task_id].state = "READY",
                              !.task_table[task_id].time_slice_remaining =
                                  TIME_SLICE_MS,
                              !.task_table[task_id].delay_ticks = 0,
                              !.task_count = @ + 1]
                  IN  Returning(scheduler_add_ready_task(k1, task_id), task_id)

task_delete(k, task_id) ==
    IF task_id >= MAX_TASKS THEN Returning(k, "RTOS_INVALID_PARAM")
    ELSE IF k.task_table[task_id].state = "DELETED"
    THEN Returning(k, "RTOS_ERROR")
    ELSE [k EXCEPT !.task_table[task_id].state = "DELETED",
                   !.task_table[task_id].task_id = NoTask,
                   !.task_count = IF @ > 0 THEN @ - 1 ELSE @,
                   !.ret = "RTOS_SUCCESS"]

task_suspend(k, task_id) ==
    IF task_id >= MAX_TASKS THEN Returning(k, "RTOS_INVALID_PARAM")
    ELSE IF k.task_table[task_id].state = "DELETED"
    THEN Returning(k, "RTOS_ERROR")
    ELSE [k EXCEPT !.task_table[task_id].state = "SUSPENDED",
                   !.ret = "RTOS_SUCCESS"]

task_resume(k, task_id) ==
    IF task_id >= MAX_TASKS THEN Returning(k, "RTOS_INVALID_PARAM")
    ELSE IF k.task_table[task_id].state # "SUSPENDED"
    THEN Returning(k, "RTOS_ERROR")
    ELSE [k EXCEPT !.task_table[task_id].state = "READY",
                   !.ret = "RTOS_SUCCESS"]

task_delay(k, delay_ticks) ==
    IF k.current_task_id < MAX_TASKS
    THEN [k EXCEPT !.task_table[k.current_task_id].delay_ticks = delay_ticks,
                   !.task_table[k.current_task_id].state = "BLOCKED",
                   !.ret = "void"]
    ELSE Returning(k, "void")

task_update_delays(k) ==
    [k EXCEPT !.task_table =
        [i \in TaskIds |->
            LET tcb == k.task_table[i]
            IN  IF tcb.state = "BLOCKED" /\ tcb.delay_ticks > 0
                THEN [tcb EXCEPT !.delay_ticks = @ - 1,
                                 !.state = IF tcb.delay_ticks - 1 = 0
                                           THEN "READY" ELSE @]
                ELSE tcb]]

\* the time-slice part of scheduler_tick, after task_update_delays
TickTimeSlice(k) ==
    LET current_task == task_get_current(k)
    IN  IF current_task # NULL /\ k.task_table[current_task].state = "RUNNING"
        THEN LET k1 == IF k.task_table[current_task].time_slice_remaining > 0
                       THEN [k EXCEPT !.task_table[current_task]
                                          .time_slice_remaining = @ - 1]
                       ELSE k
             IN  IF k1.task_table[current_task].time_slice_remaining = 0
                 THEN scheduler_switch_context(
                          scheduler_round_robin_next(
                              k1, k1.task_table[current_task].priority))
                 ELSE k1
        ELSE k

scheduler_tick(k) ==
    IF ~k.scheduler_running THEN Returning(k, "void")
    ELSE Returning(TickTimeSlice(task_update_delays(
                       [k EXCEPT !.total_scheduler_calls = @ + 1])), "void")

(***************************************************************************)
(* queue_manager.c                                                         *)
(***************************************************************************)
\* the sequence s without its first occurrence of x (the shift loop)
RemoveFirst(s, x) ==
    IF \E i \in 1 .. Len(s) : s[i] = x
    THEN LET i == CHOOSE j \in 1 .. Len(s) :
                      s[j] = x /\ \A l \in 1 .. (j - 1) : s[l] # x
         IN  SubSeq(s, 1, i - 1) \o SubSeq(s, i + 1, Len(s))
    ELSE s

queue_add_waiting_task(k, queue_id, task_id, is_sender) ==
    LET queue == k.queues[queue_id]
    IN  IF is_sender /\ Len(queue.send_waiting_tasks) < MAX_TASKS
        THEN [k EXCEPT !.queues[queue_id].send_waiting_tasks =
                           Append(@, task_id)]
        ELSE IF ~is_sender /\ Len(queue.receive_waiting_tasks) < MAX_TASKS
        THEN [k EXCEPT !.queues[queue_id].receive_waiting_tasks =
                           Append(@, task_id)]
        ELSE k

queue_remove_waiting_task(k, queue_id, task_id, is_sender) ==
    IF is_sender
    THEN [k EXCEPT !.queues[queue_id].send_waiting_tasks =
                       RemoveFirst(@, task_id)]
    ELSE [k EXCEPT !.queues[queue_id].receive_waiting_tasks =
                       RemoveFirst(@, task_id)]

queue_wake_waiting_task(k, queue_id, is_sender) ==
    LET queue == k.queues[queue_id]
    IN  IF is_sender /\ Len(queue.send_waiting_tasks) > 0
        THEN LET task_id == queue.send_waiting_tasks[1]
             IN  task_set_state(
                     queue_remove_waiting_task(k, queue_id, task_id, TRUE),
                     task_id, "READY")
        ELSE IF ~is_sender /\ Len(queue.receive_waiting_tasks) > 0
        THEN LET task_id == queue.receive_waiting_tasks[1]
             IN  task_set_state(
                     queue_remove_waiting_task(k, queue_id, task_id, FALSE),
                     task_id, "READY")
        ELSE k

\* alloc_ok: whether memory_alloc(size * QUEUE_ITEM_SIZE) returned a block;
\* the words of a fresh block are unwritten (0 stands for any content)
queue_create(k, queue_id, size, alloc_ok) ==
    IF queue_id >= MAX_QUEUES \/ size = 0 \/ size > MAX_QUEUE_SIZE
    THEN Returning(k, "QUEUE_ERROR")
    ELSE IF k.queues[queue_id].is_active THEN Returning(k, "QUEUE_ERROR")
    ELSE IF ~alloc_ok
    THEN [k EXCEPT !.queues[queue_id].buffer = <<>>, !.ret = "QUEUE_ERROR"]
    ELSE [k EXCEPT !.queues[queue_id] =
                       [buffer |-> [i \in 1 .. size |-> 0], size |-> size,
                        head |-> 0, tail |-> 0, count |-> 0,
                        is_active |-> TRUE, send_waiting_tasks |-> <<>>,
                        receive_waiting_tasks |-> <<>>],
                   !.ret = "QUEUE_SUCCESS"]

\* a queue_delete loop that wakes the first waiter only
WakeAll_first_only(k, queue_id, is_sender) ==
    queue_wake_waiting_task(k, queue_id, is_sender)

\* the two while loops of queue_delete
RECURSIVE WakeAll(_, _, _)
WakeAll(k, queue_id, is_sender) ==
    IF Len(IF is_sender THEN k.queues[queue_id].send_waiting_tasks
           ELSE k.queues[queue_id].receive_waiting_tasks) > 0
    THEN WakeAll(queue_wake_waiting_task(k, queue_id, is_sender),
                 queue_id, is_sender)
    ELSE k

queue_delete(k, queue_id) ==
    IF queue_id >= MAX_QUEUES THEN Returning(k, "QUEUE_ERROR")
    ELSE IF ~k.queues[queue_id].is_active THEN Returning(k, "QUEUE_ERROR")
    ELSE LET k1 == [k EXCEPT !.queues[queue_id].buffer = <<>>]
             k2 == WakeAll(WakeAll(k1, queue_id, TRUE), queue_id, FALSE)
         IN  [k2 EXCEPT !.queues[queue_id].is_active = FALSE,
                        !.ret = "QUEUE_SUCCESS"]

\* QueueWouldBlock without the test of timeout_ms == 0
QueueWouldBlock_zero_waits(k, queue_id, timeout_ms, is_sender) ==
    LET current_task == task_get_current(k)
    IN  IF current_task # NULL
        THEN LET id == k.task_table[current_task].task_id
                 k1 == queue_add_waiting_task(k, queue_id, id, is_sender)
                 k2 == task_set_state(k1, id, "BLOCKED")
             IN  IF timeout_ms # QUEUE_TIMEOUT_INFINITE
                 THEN Returning(k2, "QUEUE_TIMEOUT")
                 ELSE Returning(k2, IF is_sender THEN "QUEUE_FULL"
                                    ELSE "QUEUE_EMPTY")
        ELSE Returning(k, IF is_sender THEN "QUEUE_FULL"
                          ELSE "QUEUE_EMPTY")

\* the branch of queue_send / queue_receive taken on a full / empty queue
QueueWouldBlock(k, queue_id, timeout_ms, is_sender) ==
    IF timeout_ms = 0
    THEN Returning(k, IF is_sender THEN "QUEUE_FULL" ELSE "QUEUE_EMPTY")
    ELSE LET current_task == task_get_current(k)
         IN  IF current_task # NULL
             THEN LET id == k.task_table[current_task].task_id
                      k1 == queue_add_waiting_task(k, queue_id, id, is_sender)
                      k2 == task_set_state(k1, id, "BLOCKED")
                  IN  IF timeout_ms # QUEUE_TIMEOUT_INFINITE
                      THEN Returning(k2, "QUEUE_TIMEOUT")
                      ELSE Returning(k2, IF is_sender THEN "QUEUE_FULL"
                                         ELSE "QUEUE_EMPTY")
             ELSE Returning(k, IF is_sender THEN "QUEUE_FULL"
                               ELSE "QUEUE_EMPTY")

\* fault seeded for C8: the full test lets one more item in (> for >=)
queue_send_off_by_one(k, queue_id, data, timeout_ms) ==
    IF queue_id >= MAX_QUEUES THEN Returning(k, "QUEUE_ERROR")
    ELSE LET queue == k.queues[queue_id]
         IN  IF ~queue.is_active THEN Returning(k, "QUEUE_ERROR")
             ELSE IF queue.count > queue.size
             THEN QueueWouldBlock(k, queue_id, timeout_ms, TRUE)
             ELSE LET k1 == [k EXCEPT
                              !.queues[queue_id].buffer[queue.tail + 1] = data,
                              !.queues[queue_id].tail =
                                  (queue.tail + 1) % queue.size,
                              !.queues[queue_id].count = @ + 1]
                      k2 == IF Len(queue.receive_waiting_tasks) > 0
                            THEN queue_wake_waiting_task(k1, queue_id, FALSE)
                            ELSE k1
                  IN  Returning(k2, "QUEUE_SUCCESS")

queue_send(k, queue_id, data, timeout_ms) ==
    IF queue_id >= MAX_QUEUES THEN Returning(k, "QUEUE_ERROR")
    ELSE LET queue == k.queues[queue_id]
         IN  IF ~queue.is_active THEN Returning(k, "QUEUE_ERROR")
             ELSE IF queue.count >= queue.size
             THEN QueueWouldBlock(k, queue_id, timeout_ms, TRUE)
             ELSE LET k1 == [k EXCEPT
                              !.queues[queue_id].buffer[queue.tail + 1] = data,
                              !.queues[queue_id].tail =
                                  (queue.tail + 1) % queue.size,
                              !.queues[queue_id].count = @ + 1]
                      k2 == IF Len(queue.receive_waiting_tasks) > 0
                            THEN queue_wake_waiting_task(k1, queue_id, FALSE)
                            ELSE k1
                  IN  Returning(k2, "QUEUE_SUCCESS")

\* fault seeded for C9: the item is read but head does not advance
queue_receive_head_stays(k, queue_id, timeout_ms) ==
    IF queue_id >= MAX_QUEUES THEN Returning(k, "QUEUE_ERROR")
    ELSE LET queue == k.queues[queue_id]
         IN  IF ~queue.is_active THEN Returning(k, "QUEUE_ERROR")
             ELSE IF queue.count = 0
             THEN QueueWouldBlock(k, queue_id, timeout_ms, FALSE)
             ELSE LET k1 == [k EXCEPT
                              !.out = queue.buffer[queue.head + 1],
                              !.queues[queue_id].count = @ - 1]
                      k2 == IF Len(queue.send_waiting_tasks) > 0
                            THEN queue_wake_waiting_task(k1, queue_id, TRUE)
                            ELSE k1
                  IN  Returning(k2, "QUEUE_SUCCESS")

queue_receive(k, queue_id, timeout_ms) ==
    IF queue_id >= MAX_QUEUES THEN Returning(k, "QUEUE_ERROR")
    ELSE LET queue == k.queues[queue_id]
         IN  IF ~queue.is_active THEN Returning(k, "QUEUE_ERROR")
             ELSE IF queue.count = 0
             THEN QueueWouldBlock(k, queue_id, timeout_ms, FALSE)
             ELSE LET k1 == [k EXCEPT
                              !.out = queue.buffer[queue.head + 1],
                              !.queues[queue_id].head =
                                  (queue.head + 1) % queue.size,
                              !.queues[queue_id].count = @ - 1]
                      k2 == IF Len(queue.send_waiting_tasks) > 0
                            THEN queue_wake_waiting_task(k1, queue_id, TRUE)
                            ELSE k1
                  IN  Returning(k2, "QUEUE_SUCCESS")

queue_peek(k, queue_id) ==
    IF queue_id >= MAX_QUEUES THEN Returning(k, "QUEUE_ERROR")
    ELSE LET queue == k.queues[queue_id]
         IN  IF ~queue.is_active \/ queue.count = 0
             THEN Returning(k, "QUEUE_EMPTY")
             ELSE [k EXCEPT !.out = queue.buffer[queue.head + 1],
                            !.ret = "QUEUE_SUCCESS"]

(***************************************************************************)
(* queue_manager.c, semaphores                                             *)
(***************************************************************************)
\* a semaphore slot after queue_manager_init; waiting_tasks is the sequence
\* of the first waiting_count entries of the C array
InactiveSemaphore ==
    [count |-> 0, max_count |-> 0, is_active |-> FALSE,
     waiting_tasks |-> <<>>]

semaphore_add_waiting_task(k, semaphore_id, task_id) ==
    IF Len(k.semaphores[semaphore_id].waiting_tasks) < MAX_TASKS
    THEN [k EXCEPT !.semaphores[semaphore_id].waiting_tasks =
                       Append(@, task_id)]
    ELSE k

semaphore_remove_waiting_task(k, semaphore_id, task_id) ==
    [k EXCEPT !.semaphores[semaphore_id].waiting_tasks =
                  RemoveFirst(@, task_id)]

semaphore_wake_waiting_task(k, semaphore_id) ==
    LET sem == k.semaphores[semaphore_id]
    IN  IF Len(sem.waiting_tasks) > 0
        THEN LET task_id == sem.waiting_tasks[1]
             IN  task_set_state(
                     semaphore_remove_waiting_task(k, semaphore_id, task_id),
                     task_id, "READY")
        ELSE k

semaphore_create(k, semaphore_id, initial_count, max_count) ==
    IF \/ semaphore_id >= MAX_SEMAPHORES
       \/ initial_count > max_count
       \/ max_count > SEMAPHORE_MAX_COUNT
    THEN Returning(k, "RTOS_INVALID_PARAM")
    ELSE IF k.semaphores[semaphore_id].is_active
    THEN Returning(k, "RTOS_ERROR")
    ELSE [k EXCEPT !.semaphores[semaphore_id] =
                       [count |-> initial_count, max_count |-> max_count,
                        is_active |-> TRUE, waiting_tasks |-> <<>>],
                   !.ret = "RTOS_SUCCESS"]

\* the while loop of semaphore_delete
RECURSIVE SemaphoreWakeAll(_, _)
SemaphoreWakeAll(k, semaphore_id) ==
    IF Len(k.semaphores[semaphore_id].waiting_tasks) > 0
    THEN SemaphoreWakeAll(semaphore_wake_waiting_task(k, semaphore_id),
                          semaphore_id)
    ELSE k

semaphore_delete(k, semaphore_id) ==
    IF semaphore_id >= MAX_SEMAPHORES THEN Returning(k, "RTOS_INVALID_PARAM")
    ELSE IF ~k.semaphores[semaphore_id].is_active
    THEN Returning(k, "RTOS_ERROR")
    ELSE [SemaphoreWakeAll(k, semaphore_id) EXCEPT
              !.semaphores[semaphore_id].is_active = FALSE,
              !.ret = "RTOS_SUCCESS"]

semaphore_take(k, semaphore_id, timeout_ms) ==
    IF semaphore_id >= MAX_SEMAPHORES THEN Returning(k, "RTOS_INVALID_PARAM")
    ELSE LET sem == k.semaphores[semaphore_id]
         IN  IF ~sem.is_active THEN Returning(k, "RTOS_ERROR")
             ELSE IF sem.count > 0
             THEN [k EXCEPT !.semaphores[semaphore_id].count = @ - 1,
                            !.ret = "RTOS_SUCCESS"]
             ELSE IF timeout_ms = 0 THEN Returning(k, "RTOS_TIMEOUT")
             ELSE LET current_task == task_get_current(k)
                  IN  IF current_task # NULL
                      THEN LET id == k.task_table[current_task].task_id
                               k1 == semaphore_add_waiting_task(
                                         k, semaphore_id, id)
                           IN  Returning(task_set_state(k1, id, "BLOCKED"),
                                         "RTOS_TIMEOUT")
                      ELSE Returning(k, "RTOS_TIMEOUT")

\* fault seeded for C14: the count is incremented without the test against
\* max_count
semaphore_give_unsaturated(k, semaphore_id) ==
    IF semaphore_id >= MAX_SEMAPHORES THEN Returning(k, "RTOS_INVALID_PARAM")
    ELSE LET sem == k.semaphores[semaphore_id]
         IN  IF ~sem.is_active THEN Returning(k, "RTOS_ERROR")
             ELSE IF Len(sem.waiting_tasks) > 0
             THEN Returning(semaphore_wake_waiting_task(k, semaphore_id),
                            "RTOS_SUCCESS")
             ELSE [k EXCEPT !.semaphores[semaphore_id].count = @ + 1,
                            !.ret = "RTOS_SUCCESS"]

semaphore_give(k, semaphore_id) ==
    IF semaphore_id >= MAX_SEMAPHORES THEN Returning(k, "RTOS_INVALID_PARAM")
    ELSE LET sem == k.semaphores[semaphore_id]
         IN  IF ~sem.is_active THEN Returning(k, "RTOS_ERROR")
             ELSE IF Len(sem.waiting_tasks) > 0
             THEN Returning(semaphore_wake_waiting_task(k, semaphore_id),
                            "RTOS_SUCCESS")
             ELSE IF sem.count < sem.max_count
             THEN [k EXCEPT !.semaphores[semaphore_id].count = @ + 1,
                            !.ret = "RTOS_SUCCESS"]
             ELSE Returning(k, "RTOS_SUCCESS")

\* semaphore_take leaves its critical section (line 453) and goes on to put
\* the caller on the waiter list
semaphore_take_reaches_wait(k, semaphore_id, timeout_ms) ==
    /\ semaphore_id < MAX_SEMAPHORES
    /\ k.semaphores[semaphore_id].is_active
    /\ k.semaphores[semaphore_id].count = 0
    /\ timeout_ms # 0

\* the rest of semaphore_take, from line 462
semaphore_take_wait(k, semaphore_id) ==
    LET current_task == task_get_current(k)
    IN  IF current_task # NULL
        THEN LET id == k.task_table[current_task].task_id
                 k1 == semaphore_add_waiting_task(k, semaphore_id, id)
             IN  Returning(task_set_state(k1, id, "BLOCKED"), "RTOS_TIMEOUT")
        ELSE Returning(k, "RTOS_TIMEOUT")

\* a task that is inside no call
NoCall == [fn |-> "none", semaphore_id |-> MAX_SEMAPHORES]

(***************************************************************************)
(* memory_manager.c                                                        *)
(*                                                                         *)
(* The heap is kept by 4-byte words; an address is a byte offset from      *)
(* heap[0].  A word is read either as two uint16_t (magic at the lower     *)
(* address, then size) or as a pointer.  A word holding a pointer reads    *)
(* as magic 0: every address stored is 4-aligned or null, so its low half  *)
(* is never one of the two magic numbers, which are odd.                   *)
(*                                                                         *)
(* A uint32_t is kept in two's complement: a value v >= 2^31 is the        *)
(* integer v - 2^32, so that + and - are those of the machine, and the     *)
(* comparisons are made by ULess.                                          *)
(***************************************************************************)
HEAP_SIZE == 4 * MaxHeapWords

HeapWords == 0 .. (MaxHeapWords - 1)

ZeroWord == [magic |-> 0, size |-> 0, ptr |-> NULL]

PointerWord(p) == [magic |-> 0, size |-> 0, ptr |-> p]

ZeroStats ==
    [total_heap_size |-> 0, free_heap_size |-> 0, used_heap_size |-> 0,
     min_free_heap_size |-> 0, max_used_heap_size |-> 0,
     allocation_count |-> 0, free_count |-> 0, failed_allocations |-> 0,
     largest_free_block |-> 0, free_blocks_count |-> 0]

\* a < b on uint32_t
ULess(a, b) == IF (a < 0) = (b < 0) THEN a < b ELSE b < 0

\* a / b on uint32_t, b # 0
UDiv(a, b) ==
    IF b < 0 THEN (IF ULess(a, b) THEN 0 ELSE 1)
    ELSE IF a >= 0 THEN a \div b
    ELSE LET h == 2147483647
             lo == a + h + 1
         IN  (lo \div b) + (h \div b) + (((lo % b) + (h % b) + 1) \div b)

\* the fields of the header at address block
Magic(k, block) == k.heap[block \div 4].magic
Size(k, block) == k.heap[block \div 4].size
NextOf(k, block) == k.heap[(block \div 4) + 1].ptr
PrevOf(k, block) == k.heap[(block \div 4) + 2].ptr

SetMagic(k, block, magic) ==
    [k EXCEPT !.heap[block \div 4] =
                  [magic |-> magic, size |-> @.size, ptr |-> NULL]]

SetSize(k, block, size) ==
    [k EXCEPT !.heap[block \div 4] =
                  [magic |-> @.magic, size |-> size % 65536, ptr |-> NULL]]

SetNext(k, block, p) ==
    [k EXCEPT !.heap[(block \div 4) + 1] = PointerWord(p)]

SetPrev(k, block, p) ==
    [k EXCEPT !.heap[(block \div 4) + 2] = PointerWord(p)]

memory_align_size(size) ==
    LET sum == size + MEMORY_ALIGNMENT - 1
    IN  sum - (sum % MEMORY_ALIGNMENT)

RECURSIVE FindFrom(_, _, _)
FindFrom(k, current, size) ==
    IF current = NULL THEN NULL
    ELSE IF ~ULess(Size(k, current), size) THEN current
    ELSE FindFrom(k, NextOf(k, current), size)

\* memory_find_free_block taking the head of the free list whatever its size
memory_find_free_block_unsized(k, size) == k.free_list

memory_find_free_block(k, size) == FindFrom(k, k.free_list, size)

memory_insert_free_block(k, block) ==
    LET k1 == SetPrev(SetNext(k, block, k.free_list), block, NULL)
        k2 == IF k1.free_list # NULL THEN SetPrev(k1, k1.free_list, block)
              ELSE k1
    IN  [k2 EXCEPT !.free_list = block]

memory_remove_free_block(k, block) ==
    LET k1 == IF PrevOf(k, block) # NULL
              THEN SetNext(k, PrevOf(k, block), NextOf(k, block))
              ELSE [k EXCEPT !.free_list = NextOf(k, block)]
        k2 == IF NextOf(k1, block) # NULL
              THEN SetPrev(k1, NextOf(k1, block), PrevOf(k1, block))
              ELSE k1
    IN  SetPrev(SetNext(k2, block, NULL), block, NULL)

memory_split_block(k, block, size) ==
    IF ~ULess(size + sizeof_memory_block_t, Size(k, block)) THEN k
    ELSE LET new_block == block + size
             k1 == [k EXCEPT !.heap[new_block \div 4] =
                                 [magic |-> MEMORY_MAGIC_FREE,
                                  size |-> (Size(k, block) - size) % 65536,
                                  ptr |-> NULL]]
             k2 == SetPrev(SetNext(k1, new_block, NULL), new_block, NULL)
             k3 == SetSize(k2, block, size)
         IN  memory_insert_free_block(k3, new_block)

\* CoalesceFrom going on to the next block after a merge, not looking at
\* the merged block again
RECURSIVE CoalesceFrom_one_look(_, _)
CoalesceFrom_one_look(k, current) ==
    IF current >= HEAP_SIZE THEN k
    ELSE LET next_addr == current + Size(k, current)
         IN  IF /\ Magic(k, current) = MEMORY_MAGIC_FREE
                /\ next_addr < HEAP_SIZE
                /\ Magic(k, next_addr) = MEMORY_MAGIC_FREE
             THEN IF Size(k, next_addr) = 0
                  THEN [k EXCEPT !.returns = FALSE]
                  ELSE LET k1 == memory_remove_free_block(k, next_addr)
                       IN  CoalesceFrom_one_look(
                               SetSize(k1, current,
                                       Size(k1, current)
                                           + Size(k1, next_addr)),
                               next_addr + Size(k1, next_addr))
             ELSE IF Size(k, current) = 0
             THEN [k EXCEPT !.returns = FALSE]
             ELSE CoalesceFrom_one_look(k, next_addr)

\* memory_coalesce_blocks merging nothing
memory_coalesce_blocks_skipped(k) == k

\* the heap walk of memory_coalesce_blocks from address current; on a block
\* of size 0 the walk stays where it is for ever
RECURSIVE CoalesceFrom(_, _)
CoalesceFrom(k, current) ==
    IF current >= HEAP_SIZE THEN k
    ELSE LET next_addr == current + Size(k, current)
         IN  IF /\ Magic(k, current) = MEMORY_MAGIC_FREE
                /\ next_addr < HEAP_SIZE
                /\ Magic(k, next_addr) = MEMORY_MAGIC_FREE
             THEN IF Size(k, next_addr) = 0
                  THEN [k EXCEPT !.returns = FALSE]
                  ELSE LET k1 == memory_remove_free_block(k, next_addr)
                       IN  CoalesceFrom(
                               SetSize(k1, current,
                                       Size(k1, current)
                                           + Size(k1, next_addr)),
                               current)
             ELSE IF Size(k, current) = 0
             THEN [k EXCEPT !.returns = FALSE]
             ELSE CoalesceFrom(k, next_addr)

memory_coalesce_blocks(k) == CoalesceFrom(k, 0)

\* the walk of the free list in memory_update_stats
RECURSIVE StatsFrom(_, _, _, _)
StatsFrom(k, current, count, largest) ==
    IF current = NULL
    THEN [k EXCEPT !.stats.free_blocks_count = count,
                   !.stats.largest_free_block = largest]
    ELSE StatsFrom(k, NextOf(k, current), count + 1,
                   IF ULess(largest, Size(k, current))
                   THEN Size(k, current) - sizeof_memory_block_t
                   ELSE largest)

memory_update_stats(k) == StatsFrom(k, k.free_list, 0, 0)

memory_init(k) ==
    LET k1 == [k EXCEPT !.heap =
                   [w \in HeapWords |->
                       IF w = 0
                       THEN [magic |-> MEMORY_MAGIC_FREE,
                             size |-> HEAP_SIZE % 65536, ptr |-> NULL]
                       ELSE ZeroWord],
                        !.free_list = 0]
    IN  [k1 EXCEPT !.stats =
                       [ZeroStats EXCEPT
                           !.total_heap_size = HEAP_SIZE,
                           !.free_heap_size =
                               HEAP_SIZE - sizeof_memory_block_t,
                           !.min_free_heap_size =
                               HEAP_SIZE - sizeof_memory_block_t,
                           !.largest_free_block =
                               HEAP_SIZE - sizeof_memory_block_t,
                           !.free_blocks_count = 1],
                   !.ret = "RTOS_SUCCESS"]

\* the block size memory_alloc asks for on a request of size bytes
AlignedSize(size) ==
    LET rounded == memory_align_size(size + sizeof_memory_block_t)
    IN  IF ULess(rounded, MIN_BLOCK_SIZE) THEN MIN_BLOCK_SIZE ELSE rounded

memory_alloc(k, size) ==
    IF size = 0 THEN Returning(k, NULL)
    ELSE LET aligned_size == AlignedSize(size)
             block == memory_find_free_block(k, aligned_size)
         IN  IF block = NULL
             THEN [k EXCEPT !.stats.failed_allocations = @ + 1,
                            !.ret = NULL]
             ELSE LET k1 == memory_remove_free_block(k, block)
                      k2 == IF ~ULess(Size(k1, block),
                                      aligned_size + MIN_BLOCK_SIZE)
                            THEN memory_split_block(k1, block, aligned_size)
                            ELSE k1
                      k3 == SetMagic(k2, block, MEMORY_MAGIC_USED)
                      used == k3.stats.used_heap_size + Size(k3, block)
                      free == k3.stats.free_heap_size - Size(k3, block)
                      k4 == [k3 EXCEPT
                                !.stats.allocation_count = @ + 1,
                                !.stats.used_heap_size = used,
                                !.stats.free_heap_size = free,
                                !.stats.max_used_heap_size =
                                    IF ULess(@, used) THEN used ELSE @,
                                !.stats.min_free_heap_size =
                                    IF ULess(free, @) THEN free ELSE @]
                  IN  Returning(memory_update_stats(k4),
                                block + sizeof_memory_block_t)

\* ptr: a pointer memory_alloc has returned, or NULL
memory_free(k, ptr) ==
    IF ptr = NULL THEN Returning(k, "RTOS_INVALID_PARAM")
    ELSE LET block == ptr - sizeof_memory_block_t
         IN  IF Magic(k, block) # MEMORY_MAGIC_USED
             THEN Returning(k, "RTOS_ERROR")
             ELSE IF block < 0 \/ block >= HEAP_SIZE
             THEN Returning(k, "RTOS_ERROR")
             ELSE LET k1 == SetMagic(k, block, MEMORY_MAGIC_FREE)
                      k2 == [k1 EXCEPT
                                !.stats.free_count = @ + 1,
                                !.stats.used_heap_size =
                                    @ - Size(k1, block),
                                !.stats.free_heap_size =
                                    @ + Size(k1, block)]
                      k3 == memory_coalesce_blocks(
                                memory_insert_free_block(k2, block))
                  IN  Returning(memory_update_stats(k3), "RTOS_SUCCESS")

memory_is_valid_ptr(k, ptr) ==
    IF ptr = NULL THEN FALSE
    ELSE LET block == ptr - sizeof_memory_block_t
         IN  IF block < 0 \/ block >= HEAP_SIZE THEN FALSE
             ELSE Magic(k, block) = MEMORY_MAGIC_USED

memory_get_block_size(k, ptr) ==
    IF ~memory_is_valid_ptr(k, ptr) THEN 0
    ELSE Size(k, ptr - sizeof_memory_block_t)

\* memcpy(dst, src, n) inside the heap, n a multiple of 4
Memcpy(k, dst, src, n) ==
    [k EXCEPT !.heap =
        [w \in HeapWords |->
            IF w >= dst \div 4 /\ w < (dst + n) \div 4
            THEN k.heap[w - (dst \div 4) + (src \div 4)]
            ELSE k.heap[w]]]

memory_realloc(k, ptr, new_size) ==
    IF ptr = NULL THEN memory_alloc(k, new_size)
    ELSE IF new_size = 0 THEN Returning(memory_free(k, ptr), NULL)
    ELSE LET current_size == memory_get_block_size(k, ptr)
             aligned_new_size ==
                 memory_align_size(new_size + sizeof_memory_block_t)
         IN  IF current_size = 0 THEN Returning(k, NULL)
             ELSE IF ~ULess(current_size, aligned_new_size)
             THEN Returning(k, ptr)
             ELSE LET k1 == memory_alloc(k, new_size)
                      new_ptr == k1.ret
                      copy_size ==
                          IF ULess(new_size,
                                   current_size - sizeof_memory_block_t)
                          THEN new_size
                          ELSE current_size - sizeof_memory_block_t
                  IN  IF new_ptr = NULL THEN Returning(k1, NULL)
                      ELSE Returning(
                               memory_free(
                                   Memcpy(k1, new_ptr, ptr, copy_size),
                                   ptr),
                               new_ptr)

\* memset(ptr, 0, n) from inside the heap.  Up to the end of the heap the
\* words are cleared; when n reaches beyond it the call writes outside the
\* array, and wrapped is whether the write has gone round the address space
\* and cleared the words below ptr too.
Memset0(k, ptr, n, wrapped) ==
    LET beyond == ULess(HEAP_SIZE - ptr, n)
    IN  [k EXCEPT !.heap =
            [w \in HeapWords |->
                IF \/ w >= ptr \div 4 /\ (beyond \/ w < (ptr + n) \div 4)
                   \/ beyond /\ wrapped
                THEN ZeroWord
                ELSE k.heap[w]]]

memory_calloc(k, num, size, wrapped) ==
    IF num = 0 \/ size = 0 THEN Returning(k, NULL)
    ELSE LET total_size == num * size
         IN  IF UDiv(total_size, size) # num THEN Returning(k, NULL)
             ELSE LET k1 == memory_alloc(k, total_size)
                  IN  IF k1.ret # NULL
                      THEN Returning(
                               Memset0(k1, k1.ret, total_size, wrapped),
                               k1.ret)
                      ELSE k1

memory_defragment(k) ==
    Returning(memory_update_stats(memory_coalesce_blocks(k)),
              "RTOS_SUCCESS")

\* the heap walk of memory_check_integrity from address current
RECURSIVE CheckFrom(_, _, _)
CheckFrom(k, current, total_checked) ==
    IF current >= HEAP_SIZE
    THEN IF total_checked # HEAP_SIZE THEN "RTOS_ERROR" ELSE "RTOS_SUCCESS"
    ELSE IF /\ Magic(k, current) # MEMORY_MAGIC_FREE
            /\ Magic(k, current) # MEMORY_MAGIC_USED
    THEN "RTOS_ERROR"
    ELSE IF \/ Size(k, current) < sizeof_memory_block_t
            \/ current + Size(k, current) > HEAP_SIZE
    THEN "RTOS_ERROR"
    ELSE CheckFrom(k, current + Size(k, current),
                   total_checked + Size(k, current))

memory_check_integrity(k) == Returning(k, CheckFrom(k, 0, 0))

(***************************************************************************)
(* timer_manager.c                                                         *)
(***************************************************************************)
\* a timer slot after timer_init; callback is whether the pointer is set
InactiveTimer ==
    [type |-> "ONE_SHOT", state |-> "STOPPED", period_ms |-> 0,
     remaining_ms |-> 0, callback |-> FALSE, is_active |-> FALSE]

\* the history of a timer that has not been started
NoLog == [since |-> 0, fired |-> 0, alone |-> FALSE]

timer_init(k) ==
    [k EXCEPT !.software_timers = [i \in TimerIds |-> InactiveTimer],
              !.system_tick_counter = 0,
              !.timer_running = FALSE,
              !.ret = "RTOS_SUCCESS"]

timer_start(k) == [k EXCEPT !.timer_running = TRUE, !.ret = "RTOS_SUCCESS"]

timer_stop(k) == [k EXCEPT !.timer_running = FALSE, !.ret = "RTOS_SUCCESS"]

timer_find_free_slot(k) ==
    LET free == {i \in TimerIds : ~k.software_timers[i].is_active}
    IN  IF free = {} THEN TIMER_INVALID_ID
        ELSE CHOOSE i \in free : \A j \in free : i <= j

\* callback: whether the callback pointer passed is not null
timer_create(k, type, period_ms, callback) ==
    IF ~callback \/ period_ms = 0 THEN Returning(k, TIMER_INVALID_ID)
    ELSE LET timer_id == timer_find_free_slot(k)
         IN  IF timer_id = TIMER_INVALID_ID
             THEN Returning(k, TIMER_INVALID_ID)
             ELSE [k EXCEPT !.software_timers[timer_id] =
                                [type |-> type, state |-> "STOPPED",
                                 period_ms |-> period_ms,
                                 remaining_ms |-> period_ms,
                                 callback |-> TRUE, is_active |-> TRUE],
                            !.ret = timer_id]

timer_delete(k, timer_id) ==
    IF timer_id >= MAX_SOFTWARE_TIMERS THEN Returning(k, "RTOS_INVALID_PARAM")
    ELSE IF ~k.software_timers[timer_id].is_active
    THEN Returning(k, "RTOS_ERROR")
    ELSE [k EXCEPT !.software_timers[timer_id].is_active = FALSE,
                   !.software_timers[timer_id].state = "STOPPED",
                   !.software_timers[timer_id].callback = FALSE,
                   !.ret = "RTOS_SUCCESS"]

\* timer_start_timer with the reload of remaining_ms left out
timer_start_timer_no_reload(k, timer_id) ==
    IF timer_id >= MAX_SOFTWARE_TIMERS THEN Returning(k, "RTOS_INVALID_PARAM")
    ELSE IF ~k.software_timers[timer_id].is_active
    THEN Returning(k, "RTOS_ERROR")
    ELSE EXIT_CRITICAL(
             [ENTER_CRITICAL(k) EXCEPT
                 !.software_timers[timer_id].state = "RUNNING",
                 !.ret = "RTOS_SUCCESS"])

timer_start_timer(k, timer_id) ==
    IF timer_id >= MAX_SOFTWARE_TIMERS THEN Returning(k, "RTOS_INVALID_PARAM")
    ELSE IF ~k.software_timers[timer_id].is_active
    THEN Returning(k, "RTOS_ERROR")
    ELSE EXIT_CRITICAL(
             [ENTER_CRITICAL(k) EXCEPT
                 !.software_timers[timer_id].state = "RUNNING",
                 !.software_timers[timer_id].remaining_ms =
                     k.software_timers[timer_id].period_ms,
                 !.ret = "RTOS_SUCCESS"])

timer_stop_timer(k, timer_id) ==
    IF timer_id >= MAX_SOFTWARE_TIMERS THEN Returning(k, "RTOS_INVALID_PARAM")
    ELSE IF ~k.software_timers[timer_id].is_active
    THEN Returning(k, "RTOS_ERROR")
    ELSE EXIT_CRITICAL(
             [ENTER_CRITICAL(k) EXCEPT
                 !.software_timers[timer_id].state = "STOPPED",
                 !.ret = "RTOS_SUCCESS"])

timer_reset_timer(k, timer_id) ==
    IF timer_id >= MAX_SOFTWARE_TIMERS THEN Returning(k, "RTOS_INVALID_PARAM")
    ELSE IF ~k.software_timers[timer_id].is_active
    THEN Returning(k, "RTOS_ERROR")
    ELSE EXIT_CRITICAL(
             [ENTER_CRITICAL(k) EXCEPT
                 !.software_timers[timer_id].remaining_ms =
                     k.software_timers[timer_id].period_ms,
                 !.software_timers[timer_id].state = "RUNNING",
                 !.ret = "RTOS_SUCCESS"])

\* timer_change_period with the update of remaining_ms left out
timer_change_period_no_reload(k, timer_id, new_period_ms) ==
    IF timer_id >= MAX_SOFTWARE_TIMERS \/ new_period_ms = 0
    THEN Returning(k, "RTOS_INVALID_PARAM")
    ELSE IF ~k.software_timers[timer_id].is_active
    THEN Returning(k, "RTOS_ERROR")
    ELSE EXIT_CRITICAL(
             [ENTER_CRITICAL(k) EXCEPT
                 !.software_timers[timer_id].period_ms = new_period_ms,
                 !.ret = "RTOS_SUCCESS"])

timer_change_period(k, timer_id, new_period_ms) ==
    IF timer_id >= MAX_SOFTWARE_TIMERS \/ new_period_ms = 0
    THEN Returning(k, "RTOS_INVALID_PARAM")
    ELSE IF ~k.software_timers[timer_id].is_active
    THEN Returning(k, "RTOS_ERROR")
    ELSE EXIT_CRITICAL(
             [ENTER_CRITICAL(k) EXCEPT
                 !.software_timers[timer_id].period_ms = new_period_ms,
                 !.software_timers[timer_id].remaining_ms =
                     IF k.software_timers[timer_id].state = "RUNNING"
                     THEN new_period_ms ELSE @,
                 !.ret = "RTOS_SUCCESS"])

timer_enable_interrupts(k) == Returning(enable_irq(k), "void")

timer_disable_interrupts(k) ==
    [disable_irq(k) EXCEPT !.out = k.out, !.ret = "void"]

\* a * b on uint32_t for 0 <= b < 2^15, by 16-bit halves of a: the product
\* modulo 2^32, in two's complement
UMul(a, b) ==
    LET low == (a % 65536) * b
        high == (((a \div 65536) % 65536) * b + (low \div 65536)) % 65536
    IN  (IF high >= 32768 THEN high - 65536 ELSE high) * 65536
            + (low % 65536)

timer_get_ticks(k) == Returning(k, k.system_tick_counter)

timer_ms_to_ticks(ms) == UDiv(UMul(ms, TICK_RATE_HZ), 1000)

timer_ticks_to_ms(ticks) == UDiv(UMul(ticks, 1000), TICK_RATE_HZ)

timer_get_uptime_ms(k) ==
    Returning(k, timer_ticks_to_ms(k.system_tick_counter))

\* TimerStep with the reload of a periodic timer left out
TimerStep_no_reload(timer) ==
    IF timer.is_active /\ timer.state = "RUNNING" /\ timer.remaining_ms > 0
    THEN IF timer.remaining_ms - 1 = 0
         THEN IF timer.type = "PERIODIC"
              THEN [timer EXCEPT !.remaining_ms = 0]
              ELSE [timer EXCEPT !.remaining_ms = 0, !.state = "EXPIRED"]
         ELSE [timer EXCEPT !.remaining_ms = @ - 1]
    ELSE timer

\* the body of the loop of timer_process_software_timers for one slot
TimerStep(timer) ==
    IF timer.is_active /\ timer.state = "RUNNING" /\ timer.remaining_ms > 0
    THEN IF timer.remaining_ms - 1 = 0
         THEN IF timer.type = "PERIODIC"
              THEN [timer EXCEPT !.remaining_ms = timer.period_ms]
              ELSE [timer EXCEPT !.remaining_ms = 0, !.state = "EXPIRED"]
         ELSE [timer EXCEPT !.remaining_ms = @ - 1]
    ELSE timer

\* timer_execute_callback is reached for slot i in this pass
TimerExpires(timer) ==
    /\ timer.is_active
    /\ timer.state = "RUNNING"
    /\ timer.remaining_ms = 1

\* out: the timers whose callback the pass has run.  A callback is taken
\* to return without calling the kernel.
timer_process_software_timers(k) ==
    [k EXCEPT !.software_timers =
                  [i \in TimerIds |-> TimerStep(k.software_timers[i])],
              !.out = {i \in TimerIds :
                          /\ TimerExpires(k.software_timers[i])
                          /\ k.software_timers[i].callback}]

scheduler_is_running(k) == k.scheduler_running

timer_interrupt_handler(k) ==
    IF ~k.timer_running THEN [k EXCEPT !.out = {}]
    ELSE LET k1 == [k EXCEPT !.system_tick_counter = @ + 1]
             k2 == timer_process_software_timers(k1)
         IN  IF scheduler_is_running(k2)
             THEN [scheduler_tick(k2) EXCEPT !.out = k2.out]
             ELSE k2

(***************************************************************************)
(* Initial state: the statics as loaded, then task_manager_init,           *)
(* memory_init, queue_manager_init, timer_init and scheduler_init, which   *)
(* creates the idle task in the first free slot.  After the init calls     *)
(* the flags memory_initialized, queue_manager_initialized and             *)
(* timer_initialized stay true, so the calls' tests of them never fail     *)
(* and are left out.                                                       *)
(***************************************************************************)
\* the file-scope statics before any call: the declared initialisers, the
\* arrays zero-filled (state 0 is TASK_STATE_READY, a null pointer is NULL)
Statics ==
    [task_table |->
         [i \in TaskIds |->
             [task_id |-> 0, priority |-> 0, state |-> "READY",
              time_slice_remaining |-> 0, delay_ticks |-> 0,
              next |-> NULL, prev |-> NULL]],
     task_count |-> 0, current_task_id |-> NoTask,
     ready_queues |-> [p \in Priorities |-> NULL],
     scheduler_running |-> FALSE, scheduler_locked |-> FALSE,
     idle_task_id |-> NoTask, total_scheduler_calls |-> 0,
     queues |-> [q \in QueueIds |-> InactiveQueue],
     semaphores |-> [i \in SemaphoreIds |-> InactiveSemaphore],
     software_timers |-> [i \in TimerIds |-> InactiveTimer],
     timer_running |-> FALSE, system_tick_counter |-> 0,
     heap |-> [w \in HeapWords |-> ZeroWord], free_list |-> NULL,
     stats |-> ZeroStats, PRIMASK |-> 0,
     ret |-> "void", out |-> 0, returns |-> TRUE]

task_manager_init(k) ==
    [k EXCEPT !.task_table = [i \in TaskIds |-> DeletedTcb],
              !.task_count = 0,
              !.current_task_id = NoTask,
              !.ret = "RTOS_SUCCESS"]

queue_manager_init(k) ==
    [k EXCEPT !.queues = [q \in QueueIds |-> InactiveQueue],
              !.semaphores = [i \in SemaphoreIds |-> InactiveSemaphore],
              !.ret = "RTOS_SUCCESS"]

\* the heap is unused when the idle task's stack is allocated, so that
\* memory_alloc succeeds
scheduler_init(k) ==
    LET k1 == [k EXCEPT !.ready_queues = [p \in Priorities |-> NULL],
                        !.scheduler_running = FALSE,
                        !.scheduler_locked = FALSE,
                        !.total_scheduler_calls = 0]
        k2 == task_create(k1, PRIORITY_IDLE, TRUE)
    IN  [k2 EXCEPT !.idle_task_id = k2.ret, !.ret = "RTOS_SUCCESS"]

Booted ==
    scheduler_init(
        timer_init(
            queue_manager_init(task_manager_init(memory_init(Statics)))))

\* the kernel in state k, nothing sent, received, handed out or logged yet
StartsAs(k) ==
    /\ task_table = k.task_table
    /\ task_count = k.task_count
    /\ current_task_id = k.current_task_id
    /\ ready_queues = k.ready_queues
    /\ scheduler_running = k.scheduler_running
    /\ scheduler_locked = k.scheduler_locked
    /\ idle_task_id = k.idle_task_id
    /\ total_scheduler_calls = k.total_scheduler_calls
    /\ queues = k.queues
    /\ semaphores = k.semaphores
    /\ software_timers = k.software_timers
    /\ timer_running = k.timer_running
    /\ system_tick_counter = k.system_tick_counter
    /\ heap = k.heap
    /\ free_list = k.free_list
    /\ stats = k.stats
    /\ PRIMASK = k.PRIMASK
    /\ pc = [t \in TaskIds |-> NoCall]
    /\ handed = {}
    /\ timer_log = [i \in TimerIds |-> NoLog]
    /\ sent = [q \in QueueIds |-> <<>>]
    /\ received = [q \in QueueIds |-> <<>>]

Init == StartsAs(Booted)

(***************************************************************************)
(* Actions: one per public API call                                        *)
(***************************************************************************)
\* task ids the environment passes: every slot it can have filled, one slot
\* that is always DELETED, and the out-of-range id MAX_TASKS
ArgTaskIds == (0 .. MaxLive) \cup {MAX_TASKS}

\* task_create, while fewer than `bound` tasks are alive
Create(bound) ==
    /\ task_count < bound
    /\ \E priority \in 0 .. MaxPrio, alloc_ok \in BOOLEAN :
           Becomes(task_create(K, priority, alloc_ok))

Call_task_create == Create(MaxLive)

Call_task_delete ==
    \E task_id \in ArgTaskIds :
        Becomes(task_delete(K, task_id))

Call_task_suspend ==
    \E task_id \in ArgTaskIds :
        Becomes(task_suspend(K, task_id))

Call_task_resume ==
    \E task_id \in ArgTaskIds :
        Becomes(task_resume(K, task_id))

Call_task_delay ==
    \E delay_ticks \in 0 .. MaxDelay :
        Becomes(task_delay(K, delay_ticks))

Call_scheduler_start ==
    Becomes(Returning(scheduler_start(K), "void"))

Call_scheduler_switch_context ==
    Becomes(Returning(scheduler_switch_context(K), "void"))

Call_scheduler_yield ==
    Becomes(Returning(scheduler_yield(K), "void"))

\* the tick interrupt, while fewer than `bound` ticks have been counted
Tick(bound) ==
    /\ total_scheduler_calls < bound
    /\ Becomes(scheduler_tick(K))

Call_scheduler_tick == Tick(MaxTicks)

Call_scheduler_lock ==
    Becomes(Returning(scheduler_lock(K), "void"))

Call_scheduler_unlock ==
    Becomes(Returning(scheduler_unlock(K), "void"))

\* queue ids the environment passes: the queues it uses and an invalid id
ArgQueueIds == (0 .. (MaxQueues - 1)) \cup {MAX_QUEUES}
\* timeouts: none, the finite one of examples/producer_consumer_example.c,
\* and the infinite sentinel
ArgTimeouts == {0, 100, QUEUE_TIMEOUT_INFINITE}

Call_queue_create ==
    \E queue_id \in ArgQueueIds, size \in 0 .. MaxQueueSize,
       alloc_ok \in BOOLEAN :
        LET k2 == queue_create(K, queue_id, size, alloc_ok)
        IN  /\ Globals(k2)
            /\ sent' = IF k2.ret = "QUEUE_SUCCESS"
                       THEN [sent EXCEPT ![queue_id] = <<>>] ELSE sent
            /\ received' = IF k2.ret = "QUEUE_SUCCESS"
                           THEN [received EXCEPT ![queue_id] = <<>>]
                           ELSE received
            /\ UNCHANGED <<timer_log, handed, pc>>

Call_queue_delete ==
    \E queue_id \in ArgQueueIds : Becomes(queue_delete(K, queue_id))

Call_queue_send ==
    \E queue_id \in ArgQueueIds, data \in 1 .. MaxVal,
       timeout_ms \in ArgTimeouts :
        LET k2 == queue_send(K, queue_id, data, timeout_ms)
        IN  /\ queue_id \in QueueIds =>
                /\ Len(sent[queue_id]) < MaxSends
                /\ Len(k2.queues[queue_id].send_waiting_tasks) <= MaxWaiting
            /\ Globals(k2)
            /\ sent' = IF k2.ret = "QUEUE_SUCCESS"
                       THEN [sent EXCEPT ![queue_id] = Append(@, data)]
                       ELSE sent
            /\ UNCHANGED <<received, timer_log, handed, pc>>

Call_queue_receive ==
    \E queue_id \in ArgQueueIds, timeout_ms \in ArgTimeouts :
        LET k2 == queue_receive(K, queue_id, timeout_ms)
        IN  /\ queue_id \in QueueIds =>
                Len(k2.queues[queue_id].receive_waiting_tasks) <= MaxWaiting
            /\ Globals(k2)
            /\ received' = IF k2.ret = "QUEUE_SUCCESS"
                           THEN [received EXCEPT ![queue_id] =
                                                     Append(@, k2.out)]
                           ELSE received
            /\ UNCHANGED <<sent, timer_log, handed, pc>>

Call_queue_peek ==
    \E queue_id \in ArgQueueIds : Becomes(queue_peek(K, queue_id))

\* semaphore ids the environment passes: the semaphores it uses and an
\* invalid id
ArgSemaphoreIds == (0 .. (MaxSems - 1)) \cup {MAX_SEMAPHORES}

Call_semaphore_create ==
    \E semaphore_id \in ArgSemaphoreIds, initial_count \in 0 .. MaxCount,
       max_count \in 0 .. MaxCount :
        Becomes(semaphore_create(K, semaphore_id, initial_count, max_count))

Call_semaphore_delete ==
    \E semaphore_id \in ArgSemaphoreIds :
        Becomes(semaphore_delete(K, semaphore_id))

Call_semaphore_take ==
    \E semaphore_id \in ArgSemaphoreIds, timeout_ms \in ArgTimeouts :
        LET k2 == semaphore_take(K, semaphore_id, timeout_ms)
        IN  /\ semaphore_id \in SemaphoreIds =>
                Len(k2.semaphores[semaphore_id].waiting_tasks) <= MaxWaiting
            /\ Becomes(k2)

Call_semaphore_give ==
    \E semaphore_id \in ArgSemaphoreIds :
        Becomes(semaphore_give(K, semaphore_id))

\* timer ids the environment passes: every slot it can have filled, one
\* slot that is always free, and the out-of-range id
ArgTimerIds == (0 .. MaxTimers) \cup {MAX_SOFTWARE_TIMERS}

Call_timer_start ==
    Becomes(timer_start(K))

Call_timer_stop ==
    Becomes(timer_stop(K))

\* the hardware timer interrupt
TimerInterrupt ==
    LET k2 == timer_interrupt_handler(K)
    IN  /\ Globals(Returning(k2, "void"))
        /\ timer_log' =
               [i \in TimerIds |->
                   [since |-> IF timer_running /\ timer_log[i].alone
                              THEN timer_log[i].since + 1
                              ELSE timer_log[i].since,
                    fired |-> IF i \in k2.out
                              THEN timer_log[i].fired + 1
                              ELSE timer_log[i].fired,
                    alone |-> timer_log[i].alone]]
        /\ UNCHANGED <<sent, received, handed, pc>>

\* the hardware timer interrupt, while fewer than MaxTimerTicks were taken
Call_timer_interrupt_handler ==
    system_tick_counter < MaxTimerTicks /\ TimerInterrupt

\* a timer call: when it succeeds (ok) the history of timer_id becomes log
TimerCall(k2, timer_id, ok, log) ==
    /\ Globals(k2)
    /\ timer_log' = IF ok THEN [timer_log EXCEPT ![timer_id] = log]
                    ELSE timer_log
    /\ UNCHANGED <<sent, received, handed, pc>>

Call_timer_create ==
    /\ Cardinality({i \in TimerIds : software_timers[i].is_active})
           < MaxTimers
    /\ \E type \in {"ONE_SHOT", "PERIODIC"}, period_ms \in 0 .. MaxPeriod,
          callback \in BOOLEAN :
           LET k2 == timer_create(K, type, period_ms, callback)
           IN  TimerCall(k2, k2.ret, k2.ret # TIMER_INVALID_ID, NoLog)

Call_timer_delete ==
    \E timer_id \in ArgTimerIds :
        LET k2 == timer_delete(K, timer_id)
        IN  TimerCall(k2, timer_id, k2.ret = "RTOS_SUCCESS", NoLog)

Call_timer_start_timer ==
    \E timer_id \in ArgTimerIds :
        LET k2 == timer_start_timer(K, timer_id)
        IN  TimerCall(k2, timer_id, k2.ret = "RTOS_SUCCESS",
                      [since |-> 0, fired |-> 0, alone |-> TRUE])

Call_timer_stop_timer ==
    \E timer_id \in ArgTimerIds :
        LET k2 == timer_stop_timer(K, timer_id)
        IN  TimerCall(k2, timer_id, k2.ret = "RTOS_SUCCESS",
                      [timer_log[timer_id] EXCEPT !.alone = FALSE])

Call_timer_reset_timer ==
    \E timer_id \in ArgTimerIds :
        LET k2 == timer_reset_timer(K, timer_id)
        IN  TimerCall(k2, timer_id, k2.ret = "RTOS_SUCCESS",
                      [since |-> 0, fired |-> 0, alone |-> TRUE])

Call_timer_change_period ==
    \E timer_id \in ArgTimerIds, new_period_ms \in 0 .. MaxPeriod :
        LET k2 == timer_change_period(K, timer_id, new_period_ms)
        IN  TimerCall(k2, timer_id, k2.ret = "RTOS_SUCCESS",
                      [timer_log[timer_id] EXCEPT !.alone = FALSE])

\* the addresses the heap walk visits from address current on, in order; the
\* walk is given up at a block of size 0
RECURSIVE WalkFrom(_, _)
WalkFrom(k, current) ==
    IF current >= HEAP_SIZE \/ Size(k, current) = 0 THEN <<>>
    ELSE <<current>> \o WalkFrom(k, current + Size(k, current))

HeapWalk == WalkFrom(K, 0)

\* the blocks of the heap walk whose magic is FREE
FreeBlocks == {b \in Range(HeapWalk) : Magic(K, b) = MEMORY_MAGIC_FREE}

\* the free list from block current on, as far as n blocks
RECURSIVE FreeListFrom(_, _, _)
FreeListFrom(k, current, n) ==
    IF current = NULL \/ n = 0 THEN <<>>
    ELSE <<current>> \o FreeListFrom(k, NextOf(k, current), n - 1)

FreeList == FreeListFrom(K, free_list, MaxHeapWords)

\* the pointers whose block is USED now: a block of the heap walk starts
\* one header below them and its magic is USED
UsedPointers ==
    {b + sizeof_memory_block_t :
        b \in {u \in Range(HeapWalk) : Magic(K, u) = MEMORY_MAGIC_USED}}

\* the heap walk is sound and the free list holds its FREE blocks
HeapSound ==
    /\ CheckFrom(K, 0, 0) = "RTOS_SUCCESS"
    /\ Range(FreeList) = FreeBlocks

\* a word a caller may store in its payload: its two halves read as the
\* header of a USED block of the minimum size
HeaderLikeWord ==
    [magic |-> MEMORY_MAGIC_USED, size |-> MIN_BLOCK_SIZE, ptr |-> NULL]

\* a caller stores a word in the payload of a block it holds, at a place
\* where the header of a block handed out earlier stood.  The callers are
\* followed while the heap is sound: after that a link of the free list
\* may lie inside a payload, and a store to it sends the allocator to an
\* arbitrary address.
Call_payload_store ==
    /\ HeapSound
    /\ \E ptr \in handed \cap UsedPointers :
           \E w \in HeapWords :
               /\ ptr <= 4 * w
               /\ 4 * w < ptr - sizeof_memory_block_t
                              + Size(K, ptr - sizeof_memory_block_t)
               /\ 4 * w + sizeof_memory_block_t \in handed
               /\ heap[w] # HeaderLikeWord
               /\ Becomes([K EXCEPT !.heap[w] = HeaderLikeWord])

\* sizes the callers ask for: none, a few words, all the heap can hold, and
\* the largest uint32_t
ArgSizes == {0, 4, 8, 20, HEAP_SIZE - sizeof_memory_block_t, -1}

\* pointers the callers pass: null, and every pointer they were handed,
\* freed since or not
ArgPointers == handed \cup {NULL}

\* the allocator calls counted in the statistics so far
MemCalls ==
    stats.allocation_count + stats.free_count + stats.failed_allocations

\* an allocator call that comes back, handing out what it returned
MemoryCall(k2) ==
    /\ k2.returns
    /\ Globals(k2)
    /\ handed' = IF k2.ret \in 0 .. HEAP_SIZE THEN handed \cup {k2.ret}
                 ELSE handed
    /\ UNCHANGED <<sent, received, timer_log, pc>>

Call_memory_init ==
    Becomes(Returning(K, "RTOS_SUCCESS"))

Call_memory_alloc ==
    /\ MemCalls < MaxMemCalls
    /\ \E size \in ArgSizes : MemoryCall(memory_alloc(K, size))

Call_memory_free ==
    /\ MemCalls < MaxMemCalls
    /\ \E ptr \in ArgPointers :
           LET k2 == memory_free(K, ptr)
           IN  k2.returns /\ Becomes(k2)

Call_memory_realloc ==
    /\ MemCalls < MaxMemCalls - 1
    /\ \E ptr \in ArgPointers, new_size \in ArgSizes :
           MemoryCall(memory_realloc(K, ptr, new_size))

Call_memory_calloc ==
    /\ MemCalls < MaxMemCalls
    /\ \E num \in 0 .. 2, size \in ArgSizes, wrapped \in BOOLEAN :
           MemoryCall(memory_calloc(K, num, size, wrapped))

Call_memory_defragment ==
    LET k2 == memory_defragment(K)
    IN  k2.returns /\ Becomes(k2)

Call_memory_check_integrity ==
    Becomes(memory_check_integrity(K))


Next ==
    \/ Call_task_create
    \/ Call_task_suspend
    \/ Call_task_resume
    \/ Call_task_delay
    \/ Call_scheduler_start
    \/ Call_scheduler_switch_context
    \/ Call_scheduler_yield
    \/ Call_scheduler_tick
    \/ Call_scheduler_lock
    \/ Call_scheduler_unlock

Spec == Init /\ [][Next]_vars

(***************************************************************************)
(* The message queues, used by the tasks the scheduler has made current    *)
(***************************************************************************)
NextQueue ==
    \/ Call_task_create
    \/ Call_scheduler_start
    \/ Call_scheduler_switch_context
    \/ Call_queue_create
    \/ Call_queue_delete
    \/ Call_queue_send
    \/ Call_queue_receive
    \/ Call_queue_peek

SpecQueue == Init /\ [][NextQueue]_vars

(***************************************************************************)
(* The semaphores, used by tasks that are created, made current and        *)
(* deleted                                                                 *)
(***************************************************************************)
\* task_create, while fewer than MaxLiveSem tasks are alive
Sem_task_create == Create(MaxLiveSem)

NextSem ==
    \/ Sem_task_create
    \/ Call_task_delete
    \/ Call_scheduler_start
    \/ Call_scheduler_switch_context
    \/ Call_semaphore_create
    \/ Call_semaphore_delete
    \/ Call_semaphore_take
    \/ Call_semaphore_give

SpecSem == Init /\ [][NextSem]_vars

(***************************************************************************)
(* The software timers under the timer interrupt, which also drives the    *)
(* scheduler tick once the scheduler runs                                  *)
(***************************************************************************)
NextTimer ==
    \/ Call_scheduler_start
    \/ Call_timer_start
    \/ Call_timer_stop
    \/ Call_timer_interrupt_handler
    \/ Call_timer_create
    \/ Call_timer_delete
    \/ Call_timer_start_timer
    \/ Call_timer_stop_timer
    \/ Call_timer_reset_timer
    \/ Call_timer_change_period

SpecTimer == Init /\ [][NextTimer]_vars

(***************************************************************************)
(* The allocator under its callers                                         *)
(***************************************************************************)
NextMem ==
    \/ Call_memory_init
    \/ Call_memory_alloc
    \/ Call_memory_free
    \/ Call_memory_realloc
    \/ Call_memory_calloc
    \/ Call_memory_defragment
    \/ Call_memory_check_integrity

SpecMem == Init /\ [][NextMem]_vars

(***************************************************************************)
(* The tick counter and its conversions over the 32-bit range: the system  *)
(* timer was started and has run, with no software timer and the           *)
(* scheduler not started, for a number of ticks that is small, or about    *)
(* the largest whose product with 1000 is below 2^32, or about to wrap     *)
(***************************************************************************)
\* the largest uint32_t
UINT32_MAX == 0 - 1

\* the largest value whose product with 1000 is a uint32_t
LargestExact == UDiv(UINT32_MAX, 1000)

ArgTicks ==
    (0 .. MaxWindow)
        \cup ((LargestExact - MaxWindow) .. (LargestExact + MaxWindow))
        \cup ((UINT32_MAX - MaxWindow) .. UINT32_MAX)

\* the tick counts the runs start from
StartTicks == {0, LargestExact - MaxWindow, UINT32_MAX - MaxWindow}

InitUptime ==
    \E ticks \in StartTicks :
        StartsAs([timer_start(Booted) EXCEPT !.system_tick_counter = ticks])

Uptime_timer_interrupt_handler ==
    /\ timer_interrupt_handler(K).system_tick_counter \in ArgTicks
    /\ TimerInterrupt

Call_timer_get_ticks == Becomes(timer_get_ticks(K))

Call_timer_get_uptime_ms == Becomes(timer_get_uptime_ms(K))

Call_timer_ms_to_ticks ==
    \E ms \in ArgTicks : Becomes(Returning(K, timer_ms_to_ticks(ms)))

Call_timer_ticks_to_ms ==
    \E ticks \in ArgTicks : Becomes(Returning(K, timer_ticks_to_ms(ticks)))

NextUptime ==
    \/ Uptime_timer_interrupt_handler
    \/ Call_timer_get_ticks
    \/ Call_timer_get_uptime_ms
    \/ Call_timer_ms_to_ticks
    \/ Call_timer_ticks_to_ms

SpecUptime == InitUptime /\ [][NextUptime]_vars

(***************************************************************************)
(* The allocator under callers that only allocate and free                 *)
(***************************************************************************)
NextAllocFree ==
    \/ Call_memory_init
    \/ Call_memory_alloc
    \/ Call_memory_free

SpecAllocFree == Init /\ [][NextAllocFree]_vars

(***************************************************************************)
(* The allocator under callers that also store into the blocks they hold   *)
(***************************************************************************)
NextMemData ==
    \/ Call_memory_init
    \/ Call_memory_alloc
    \/ Call_memory_free
    \/ Call_memory_realloc
    \/ Call_memory_calloc
    \/ Call_memory_defragment
    \/ Call_memory_check_integrity
    \/ Call_payload_store

SpecMemData == Init /\ [][NextMemData]_vars

(***************************************************************************)
(* Critical sections entered with interrupts enabled or disabled           *)
(***************************************************************************)
Call_timer_enable_interrupts == Becomes(timer_enable_interrupts(K))

Call_timer_disable_interrupts == Becomes(timer_disable_interrupts(K))

NextCritical ==
    \/ Call_scheduler_start
    \/ Call_scheduler_lock
    \/ Call_scheduler_unlock
    \/ Call_task_suspend
    \/ Call_task_resume
    \/ Call_task_delay
    \/ Call_timer_create
    \/ Call_timer_start_timer
    \/ Call_timer_stop_timer
    \/ Call_timer_enable_interrupts
    \/ Call_timer_disable_interrupts

SpecCritical == Init /\ [][NextCritical]_vars

(***************************************************************************)
(* Semaphore calls of two tasks of one priority under the tick interrupt:  *)
(* a call runs to the end of its critical section in one step and, when    *)
(* it goes on, the rest in a later step of the same task; the tick         *)
(* interrupt can hand the processor to the other task in between.          *)
(***************************************************************************)
\* task t is the one executing
Executing(t) ==
    /\ scheduler_running
    /\ t = task_get_current(K)
    /\ task_table[t].state = "RUNNING"

Pre_task_create == ~scheduler_running /\ Create(MaxLiveSem)

Pre_semaphore_create == ~scheduler_running /\ Call_semaphore_create

Pre_scheduler_start == ~scheduler_running /\ Call_scheduler_start

Pre_scheduler_tick == Tick(MaxTicksPre)

\* semaphore_take up to the end of its critical section
Enter_semaphore_take ==
    \E t \in TaskIds, semaphore_id \in ArgSemaphoreIds,
       timeout_ms \in ArgTimeouts :
        /\ Executing(t)
        /\ pc[t] = NoCall
        /\ IF semaphore_take_reaches_wait(K, semaphore_id, timeout_ms)
           THEN /\ Globals(K)
                /\ pc' = [pc EXCEPT ![t] = [fn |-> "semaphore_take",
                                           semaphore_id |-> semaphore_id]]
                /\ UNCHANGED <<sent, received, timer_log, handed>>
           ELSE Becomes(semaphore_take(K, semaphore_id, timeout_ms))

Resume_semaphore_take ==
    \E t \in TaskIds :
        /\ Executing(t)
        /\ pc[t].fn = "semaphore_take"
        /\ Globals(semaphore_take_wait(K, pc[t].semaphore_id))
        /\ pc' = [pc EXCEPT ![t] = NoCall]
        /\ UNCHANGED <<sent, received, timer_log, handed>>

\* semaphore_give: no task executes here while another is on a waiter
\* list, so the call takes the branch that stays in its critical section
Task_semaphore_give ==
    \E t \in TaskIds :
        /\ Executing(t)
        /\ pc[t] = NoCall
        /\ \A s \in SemaphoreIds : semaphores[s].waiting_tasks = <<>>
        /\ Call_semaphore_give

NextPreempt ==
    \/ Pre_task_create
    \/ Pre_semaphore_create
    \/ Pre_scheduler_start
    \/ Pre_scheduler_tick
    \/ Enter_semaphore_take
    \/ Resume_semaphore_take
    \/ Task_semaphore_give

SpecPreempt == Init /\ [][NextPreempt]_vars

(***************************************************************************)
(* Delays: the executing task calls task_delay and the tick interrupt      *)
(* keeps arriving while ticks are left                                     *)
(***************************************************************************)
Task_task_delay ==
    /\ \E t \in TaskIds : Executing(t)
    /\ Call_task_delay

NextDelay ==
    \/ Call_task_create
    \/ Pre_scheduler_start
    \/ Task_task_delay
    \/ Call_scheduler_tick

SpecDelay ==
    Init /\ [][NextDelay]_vars /\ WF_vars(Call_scheduler_tick)

(***************************************************************************)
(* Round robin (scenario 2 of the specification): tasks are created, the   *)
(* scheduler is started once, and then only the tick interrupt runs.       *)
(***************************************************************************)
RR_task_create == ~scheduler_running /\ Create(MaxLiveRR)

RR_scheduler_start == ~scheduler_running /\ Call_scheduler_start

RR_scheduler_tick == Tick(MaxTicksRR)

NextRR ==
    \/ RR_task_create
    \/ RR_scheduler_start
    \/ RR_scheduler_tick

SpecRR == Init /\ [][NextRR]_vars

(***************************************************************************)
(* Round robin with the scheduler locked and unlocked between ticks        *)
(***************************************************************************)
NextLock ==
    \/ RR_task_create
    \/ RR_scheduler_start
    \/ RR_scheduler_tick
    \/ Call_scheduler_lock
    \/ Call_scheduler_unlock

SpecLock == Init /\ [][NextLock]_vars

(***************************************************************************)
(* Vocabulary of the properties                                            *)
(***************************************************************************)
RunningTasks == {t \in TaskIds : task_table[t].state = "RUNNING"}

\* the TCBs met walking a ready ring from tcb along next
RECURSIVE Reach(_, _, _)
Reach(tt, tcb, seen) ==
    IF tcb = NULL \/ tcb \in seen THEN seen
    ELSE Reach(tt, tt[tcb].next, seen \cup {tcb})

\* TCB t is linked into the ready queue of priority p
OnReadyQueue(t, p) == t \in Reach(task_table, ready_queues[p], {})

\* the items a queue holds, oldest first
Contents(queue) ==
    [i \in 1 .. queue.count |->
        queue.buffer[((queue.head + i - 1) % queue.size) + 1]]

IsPrefix(s, t) == Len(s) <= Len(t) /\ SubSeq(t, 1, Len(s)) = s

Full(q) == queues[q].is_active /\ queues[q].count = queues[q].size

(***************************************************************************)
(* C1: once scheduler_start has run, exactly one TCB is RUNNING and it is  *)
(* the task task_get_current returns.                                      *)
(***************************************************************************)
C1_ExactlyOneRunning ==
    scheduler_running =>
        /\ Cardinality(RunningTasks) = 1
        /\ task_get_current(K) # NULL
        /\ RunningTasks = {task_get_current(K)}

(***************************************************************************)
(* C2: after every scheduler_tick with the scheduler running and not       *)
(* locked, every priority p with a non-empty ready queue is at most the    *)
(* priority of the RUNNING task.                                           *)
(***************************************************************************)
C2_TickLeavesHighestRunning ==
    [][(Call_scheduler_tick /\ scheduler_running /\ ~scheduler_locked) =>
         \A t \in TaskIds, p \in Priorities :
             (task_table'[t].state = "RUNNING" /\ ready_queues'[p] # NULL)
                 => task_table'[t].priority >= p]_vars

(***************************************************************************)
(* C3: a TCB is linked into the ready queue of priority p if and only if   *)
(* its state is READY and its priority is p.                               *)
(***************************************************************************)
C3_ReadyQueueIffReady ==
    \A t \in TaskIds, p \in Priorities :
        OnReadyQueue(t, p) <=>
            (task_table[t].state = "READY" /\ task_table[t].priority = p)

(***************************************************************************)
(* C4: when a tick's delay update makes READY a task of higher priority    *)
(* than the RUNNING task, that task is RUNNING when the tick returns.      *)
(***************************************************************************)
C4_WokenHigherPriorityPreempts ==
    [][(Call_scheduler_tick /\ scheduler_running /\ ~scheduler_locked) =>
         \A w \in TaskIds, r \in TaskIds :
             (/\ task_table[r].state = "RUNNING"
              /\ task_table[w].state = "BLOCKED"
              /\ task_table[w].delay_ticks = 1
              /\ task_table[w].priority > task_table[r].priority)
                 => task_table'[w].state = "RUNNING"]_vars

(***************************************************************************)
(* C5: k >= 2 tasks created at the highest priority in use share the CPU   *)
(* in insertion order, each RUNNING for exactly TIME_SLICE_MS consecutive  *)
(* ticks: after n ticks the RUNNING task is number (n div TIME_SLICE_MS)   *)
(* mod k in insertion order, it is the only RUNNING task, it has used      *)
(* n mod TIME_SLICE_MS ticks of its slice, and its peers wait with a full  *)
(* slice.                                                                  *)
(***************************************************************************)
Live == {t \in TaskIds : task_table[t].state # "DELETED"}

TopPriority ==
    CHOOSE p \in Priorities :
        /\ \E t \in Live : task_table[t].priority = p
        /\ \A t \in Live : task_table[t].priority <= p

\* the tasks of the highest priority in use; without task_delete the slots
\* are filled in ascending order, so insertion order is slot order
Peers == {t \in Live : task_table[t].priority = TopPriority}

PeerAt(i) == CHOOSE t \in Peers : Cardinality({u \in Peers : u < t}) = i

C5_RoundRobin ==
    (scheduler_running /\ Cardinality(Peers) >= 2) =>
        LET n == total_scheduler_calls
            turn == PeerAt((n \div TIME_SLICE_MS) % Cardinality(Peers))
        IN  /\ RunningTasks = {turn}
            /\ current_task_id = turn
            /\ task_table[turn].time_slice_remaining =
                   TIME_SLICE_MS - (n % TIME_SLICE_MS)
            /\ \A t \in Peers \ {turn} :
                   /\ task_table[t].state = "READY"
                   /\ task_table[t].time_slice_remaining = TIME_SLICE_MS

\* three peers have each had a full slice and the first runs again
W5_FullCycle ==
    /\ scheduler_running
    /\ Cardinality(Peers) = 3
    /\ total_scheduler_calls = 3 * TIME_SLICE_MS + 1
    /\ current_task_id = PeerAt(0)

(***************************************************************************)
(* C6: task_delay(n), n >= 1, makes the caller BLOCKED with delay n; every *)
(* tick decrements the delay by one; in the tick that brings it to zero    *)
(* the task becomes READY and is the tail of its priority's ready queue.   *)
(***************************************************************************)
C6_DelayExpiresAtTail ==
    [][/\ \A n \in 1 .. MaxDelay :
              (Globals(task_delay(K, n)) /\ task_get_current(K) # NULL) =>
                  /\ task_table'[current_task_id].state = "BLOCKED"
                  /\ task_table'[current_task_id].delay_ticks = n
       /\ (Call_scheduler_tick /\ scheduler_running) =>
              \A t \in TaskIds :
                  (task_table[t].state = "BLOCKED"
                   /\ task_table[t].delay_ticks >= 1) =>
                      /\ task_table'[t].delay_ticks =
                             task_table[t].delay_ticks - 1
                      /\ task_table[t].delay_ticks > 1 =>
                             task_table'[t].state = "BLOCKED"
                      /\ task_table[t].delay_ticks = 1 =>
                             /\ task_table'[t].state = "READY"
                             /\ ready_queues'[task_table[t].priority] # NULL
                             /\ task_table'[ready_queues'[
                                    task_table[t].priority]].prev = t]_vars

(***************************************************************************)
(* C7: for every active queue the sender-waiter list is non-empty only if  *)
(* count = size, the receiver-waiter list is non-empty only if count = 0,  *)
(* and the two lists are never both non-empty.                             *)
(***************************************************************************)
C7_WaitersMatchFillLevel ==
    \A q \in QueueIds :
        queues[q].is_active =>
            /\ queues[q].send_waiting_tasks # <<>> =>
                   queues[q].count = queues[q].size
            /\ queues[q].receive_waiting_tasks # <<>> => queues[q].count = 0
            /\ ~(/\ queues[q].send_waiting_tasks # <<>>
                 /\ queues[q].receive_waiting_tasks # <<>>)

(***************************************************************************)
(* C8: for every active queue 0 <= count <= size; a send on a full queue   *)
(* writes nothing and a receive on an empty queue reads nothing.           *)
(***************************************************************************)
C8_CountWithinSize ==
    \A q \in QueueIds :
        queues[q].is_active =>
            /\ 0 <= queues[q].count
            /\ queues[q].count <= queues[q].size
            /\ Len(queues[q].buffer) = queues[q].size
            /\ \A data \in 1 .. MaxVal, timeout_ms \in ArgTimeouts :
                   LET after == queue_send(K, q, data, timeout_ms).queues[q]
                   IN  queues[q].count = queues[q].size =>
                           /\ after.buffer = queues[q].buffer
                           /\ after.tail = queues[q].tail
                           /\ after.count = queues[q].count
            /\ \A timeout_ms \in ArgTimeouts :
                   LET k2 == queue_receive(K, q, timeout_ms)
                   IN  queues[q].count = 0 =>
                           /\ k2.ret # "QUEUE_SUCCESS"
                           /\ k2.out = K.out
                           /\ k2.queues[q].head = queues[q].head
                           /\ k2.queues[q].count = 0

\* a queue filled to its size again after a receive has made room
W8_FullAfterWrap ==
    \E q \in QueueIds :
        /\ Full(q)
        /\ queues[q].size = MaxQueueSize
        /\ Len(received[q]) >= 1
        /\ Len(sent[q]) = Len(received[q]) + queues[q].size

(***************************************************************************)
(* C9: a queue is FIFO without loss, duplication or change: the values the *)
(* successful receives returned, followed by the items the queue holds,    *)
(* are exactly the values of the successful sends, in order (so the        *)
(* received sequence is a prefix of the sent one); a send then a receive   *)
(* on an empty queue returns the value sent.                               *)
(***************************************************************************)
C9_Fifo ==
    \A q \in QueueIds :
        /\ IsPrefix(received[q], sent[q])
        /\ queues[q].is_active =>
               /\ sent[q] = received[q] \o Contents(queues[q])
               /\ queues[q].count = 0 =>
                      \A data \in 1 .. MaxVal :
                          LET k1 == queue_send(K, q, data, 0)
                              k2 == queue_receive(k1, q, 0)
                          IN  /\ k1.ret = "QUEUE_SUCCESS"
                              /\ k2.ret = "QUEUE_SUCCESS"
                              /\ k2.out = data

\* two different values came out in the order they went in, the ring
\* having wrapped around
W9_TwoReceivedAfterWrap ==
    \E q \in QueueIds :
        /\ queues[q].is_active
        /\ Len(received[q]) >= 2
        /\ received[q][1] # received[q][2]
        /\ Len(sent[q]) > queues[q].size
        /\ queues[q].size = MaxQueueSize

(***************************************************************************)
(* C10: a queue_send with a finite timeout > 0 on a full queue does not    *)
(* return TIMEOUT unless the timeout has elapsed with the queue still      *)
(* full.  A call is one step of the model, during which no tick elapses,   *)
(* and the queue stays full until a receive, so the call must not return   *)
(* TIMEOUT (nor FULL) and must leave the item to be enqueued: after the    *)
(* next successful receive the queue holds the item as its newest.         *)
(***************************************************************************)
C10_TimedSendCompletes ==
    \A q \in QueueIds, data \in 1 .. MaxVal :
        (Full(q) /\ task_get_current(K) # NULL) =>
            LET k1 == queue_send(K, q, data, 100)
                k2 == queue_receive(k1, q, 0)
            IN  /\ k1.ret \notin {"QUEUE_TIMEOUT", "QUEUE_FULL"}
                /\ k2.queues[q].count = queues[q].size
                /\ Contents(k2.queues[q])[queues[q].size] = data

(***************************************************************************)
(* Vocabulary of the waiter-list properties                                *)
(***************************************************************************)
\* the task id a blocking call records as the waiter
CallerId == task_table[task_get_current(K)].task_id

\* task_id is READY in snapshot k
ReadyIn(k, task_id) ==
    task_id \in TaskIds /\ k.task_table[task_id].state = "READY"

(***************************************************************************)
(* C11: a blocking call made with QUEUE_TIMEOUT_INFINITE never returns a   *)
(* timeout, full or empty result.  A call is one step, during which no     *)
(* give, send or receive can meet the awaited condition, so on a semaphore *)
(* of count 0, a full queue or an empty queue the call must not return     *)
(* with such a result.                                                     *)
(***************************************************************************)
C11_InfiniteWaitNeverFails ==
    task_get_current(K) # NULL =>
        /\ \A s \in SemaphoreIds :
               (semaphores[s].is_active /\ semaphores[s].count = 0) =>
                   semaphore_take(K, s, QUEUE_TIMEOUT_INFINITE).ret
                       # "RTOS_TIMEOUT"
        /\ \A q \in QueueIds, data \in 1 .. MaxVal :
               Full(q) =>
                   queue_send(K, q, data, QUEUE_TIMEOUT_INFINITE).ret
                       \notin {"QUEUE_TIMEOUT", "QUEUE_FULL"}
        /\ \A q \in QueueIds :
               (queues[q].is_active /\ queues[q].count = 0) =>
                   queue_receive(K, q, QUEUE_TIMEOUT_INFINITE).ret
                       \notin {"QUEUE_TIMEOUT", "QUEUE_EMPTY"}

(***************************************************************************)
(* C12: when a blocking (timeout # 0) queue_send, queue_receive or         *)
(* semaphore_take returns TIMEOUT, the calling task is not on the waiter   *)
(* list of the queue or semaphore it waited on.                            *)
(***************************************************************************)
C12_TimedOutWaiterRemoved ==
    task_get_current(K) # NULL =>
        \A timeout_ms \in ArgTimeouts \ {0} :
            /\ \A s \in SemaphoreIds :
                   LET k1 == semaphore_take(K, s, timeout_ms)
                   IN  k1.ret = "RTOS_TIMEOUT" =>
                           CallerId \notin
                               Range(k1.semaphores[s].waiting_tasks)
            /\ \A q \in QueueIds, data \in 1 .. MaxVal :
                   LET k1 == queue_send(K, q, data, timeout_ms)
                   IN  k1.ret = "QUEUE_TIMEOUT" =>
                           CallerId \notin
                               Range(k1.queues[q].send_waiting_tasks)
            /\ \A q \in QueueIds :
                   LET k1 == queue_receive(K, q, timeout_ms)
                   IN  k1.ret = "QUEUE_TIMEOUT" =>
                           CallerId \notin
                               Range(k1.queues[q].receive_waiting_tasks)

(***************************************************************************)
(* C13: every wake-up removes the waiter that is first on the list (the    *)
(* one waiting longest), makes that task READY, and leaves the other       *)
(* waiters in their order, whatever the priorities.                        *)
(***************************************************************************)
C13_WakeInFifoOrder ==
    /\ \A s \in SemaphoreIds :
           LET waiting == semaphores[s].waiting_tasks
               k1 == semaphore_wake_waiting_task(K, s)
           IN  waiting # <<>> =>
                   /\ k1.semaphores[s].waiting_tasks = Tail(waiting)
                   /\ ReadyIn(k1, Head(waiting))
    /\ \A q \in QueueIds :
           /\ LET waiting == queues[q].send_waiting_tasks
                  k1 == queue_wake_waiting_task(K, q, TRUE)
              IN  waiting # <<>> =>
                      /\ k1.queues[q].send_waiting_tasks = Tail(waiting)
                      /\ ReadyIn(k1, Head(waiting))
           /\ LET waiting == queues[q].receive_waiting_tasks
                  k1 == queue_wake_waiting_task(K, q, FALSE)
              IN  waiting # <<>> =>
                      /\ k1.queues[q].receive_waiting_tasks = Tail(waiting)
                      /\ ReadyIn(k1, Head(waiting))

(***************************************************************************)
(* C14: for every active semaphore 0 <= count <= max_count, and a          *)
(* non-empty waiter list implies count = 0.                                *)
(***************************************************************************)
C14_SemaphoreCountWithinMax ==
    \A s \in SemaphoreIds :
        semaphores[s].is_active =>
            /\ 0 <= semaphores[s].count
            /\ semaphores[s].count <= semaphores[s].max_count
            /\ semaphores[s].waiting_tasks # <<>> => semaphores[s].count = 0

\* a semaphore that can count to MaxCount has a task waiting on it
W14_WaiterOnDrainedSemaphore ==
    \E s \in SemaphoreIds :
        /\ semaphores[s].is_active
        /\ semaphores[s].max_count = MaxCount
        /\ semaphores[s].waiting_tasks # <<>>

(***************************************************************************)
(* C15: semaphore_give on an active semaphore returns success; with        *)
(* waiters it removes exactly the head waiter, makes it READY and leaves   *)
(* count unchanged; without waiters it increments count, saturating at     *)
(* max_count.                                                              *)
(***************************************************************************)
C15_GiveWakesHeadOrCounts ==
    \A s \in SemaphoreIds :
        semaphores[s].is_active =>
            LET sem == semaphores[s]
                k1 == semaphore_give(K, s)
                after == k1.semaphores[s]
            IN  /\ k1.ret = "RTOS_SUCCESS"
                /\ sem.waiting_tasks # <<>> =>
                       /\ after.waiting_tasks = Tail(sem.waiting_tasks)
                       /\ after.count = sem.count
                       /\ ReadyIn(k1, Head(sem.waiting_tasks))
                /\ sem.waiting_tasks = <<>> =>
                       /\ after.waiting_tasks = <<>>
                       /\ after.count = IF sem.count = sem.max_count
                                        THEN sem.max_count
                                        ELSE sem.count + 1

(***************************************************************************)
(* C16: a task id is on at most one waiter list, at most once, and a task  *)
(* on a waiter list is neither RUNNING nor linked on a ready queue.        *)
(***************************************************************************)
\* the waiter lists of all queues and semaphores, one after the other
RECURSIVE Flatten(_)
Flatten(seqs) ==
    IF seqs = <<>> THEN <<>> ELSE Head(seqs) \o Flatten(Tail(seqs))

AllWaiters ==
    Flatten([q \in 1 .. MAX_QUEUES |->
                 queues[q - 1].send_waiting_tasks
                     \o queues[q - 1].receive_waiting_tasks])
        \o Flatten([i \in 1 .. MAX_SEMAPHORES |->
                        semaphores[i - 1].waiting_tasks])

C16_WaiterOnOneListOnce ==
    /\ \A i, j \in 1 .. Len(AllWaiters) :
           AllWaiters[i] = AllWaiters[j] => i = j
    /\ \A t \in Range(AllWaiters) \cap TaskIds :
           /\ task_table[t].state # "RUNNING"
           /\ \A p \in Priorities : ~OnReadyQueue(t, p)

(***************************************************************************)
(* C17: after task_delete(id) returns success the task is on no ready      *)
(* queue and on no waiter list, the task count is one less, and the slot   *)
(* is DELETED and free for a later task_create.  (The stack block is       *)
(* handed to memory_free by the call; the heap is not part of this         *)
(* snapshot.)                                                              *)
(***************************************************************************)
\* the waiter lists of snapshot k hold task_id
WaitingIn(k, task_id) ==
    \/ \E q \in QueueIds :
           task_id \in Range(k.queues[q].send_waiting_tasks)
                           \cup Range(k.queues[q].receive_waiting_tasks)
    \/ \E i \in SemaphoreIds : task_id \in Range(k.semaphores[i].waiting_tasks)

C17_DeleteRemovesEverywhere ==
    \A task_id \in TaskIds :
        LET k1 == task_delete(K, task_id)
        IN  k1.ret = "RTOS_SUCCESS" =>
                /\ \A p \in Priorities :
                       task_id \notin Reach(k1.task_table, k1.ready_queues[p],
                                            {})
                /\ ~WaitingIn(k1, task_id)
                /\ k1.task_count = task_count - 1
                /\ k1.task_table[task_id].state = "DELETED"
                /\ task_get_free_id(k1) # NoTask
                /\ task_get_free_id(k1) <= task_id

\* C18: a periodic software timer of period P that was started and then left
\* running (no stop, period change or delete since its last
\* timer_start_timer / timer_reset_timer) has run its callback exactly
\* n \div P times after n timer ticks, and its remaining time is P at every
\* expiry: P minus the ticks taken since the last expiry.
C18_PeriodicFiresEveryPeriod ==
    \A i \in TimerIds :
        LET timer == software_timers[i]
            log == timer_log[i]
        IN  (timer.is_active /\ timer.type = "PERIODIC" /\ log.alone)
                => /\ timer.state = "RUNNING"
                   /\ log.fired = log.since \div timer.period_ms
                   /\ timer.remaining_ms =
                          timer.period_ms - (log.since % timer.period_ms)

\* a periodic timer of period 2 or more has expired twice and been reloaded
W18_SecondExpiry ==
    \E i \in TimerIds :
        /\ software_timers[i].is_active
        /\ software_timers[i].type = "PERIODIC"
        /\ software_timers[i].period_ms >= 2
        /\ timer_log[i].alone
        /\ timer_log[i].fired = 2
        /\ timer_log[i].since = 2 * software_timers[i].period_ms
        /\ software_timers[i].remaining_ms = software_timers[i].period_ms

\* C19: a one-shot software timer of period P runs its callback exactly
\* once, on the P-th tick after timer_start_timer / timer_reset_timer, and is
\* then EXPIRED; before that tick it has not fired; after it, further ticks
\* neither count it down nor fire it again, whatever other timer calls are
\* made, until it is started or reset again.
C19_OneShotFiresOnce ==
    \A i \in TimerIds :
        LET timer == software_timers[i]
            log == timer_log[i]
        IN  (timer.is_active /\ timer.type = "ONE_SHOT")
                => /\ log.fired <= 1
                   /\ log.fired = 1 => timer.state # "RUNNING"
                   /\ timer.state = "EXPIRED" =>
                          log.fired = 1 /\ timer.remaining_ms = 0
                   /\ (log.alone /\ log.since < timer.period_ms)
                          => /\ log.fired = 0
                             /\ timer.state = "RUNNING"
                             /\ timer.remaining_ms =
                                    timer.period_ms - log.since
                   /\ (log.alone /\ log.since >= timer.period_ms)
                          => /\ log.fired = 1
                             /\ timer.state = "EXPIRED"

\* a one-shot timer of period 2 or more has expired and two more ticks
\* have been taken since
W19_TicksAfterExpiry ==
    \E i \in TimerIds :
        /\ software_timers[i].is_active
        /\ software_timers[i].type = "ONE_SHOT"
        /\ software_timers[i].period_ms >= 2
        /\ software_timers[i].state = "EXPIRED"
        /\ timer_log[i].alone
        /\ timer_log[i].fired = 1
        /\ timer_log[i].since >= software_timers[i].period_ms + 2

\* C20: after memory_init and any allocator calls, the walk of the heap from
\* its base meets only blocks whose magic is FREE or USED and whose size is
\* at least that of the header, and their sizes add up to HEAP_SIZE:
\* memory_check_integrity returns RTOS_SUCCESS.
C20_HeapWalkIntegrity ==
    memory_check_integrity(K).ret = "RTOS_SUCCESS"

\* C21: once every block that was allocated has been freed again (as many
\* frees as allocations have succeeded), the heap is one FREE block of
\* HEAP_SIZE bytes, that block alone is on the free list, and the free and
\* used byte counters are those memory_init set.
C21_FreeingRestoresHeap ==
    stats.allocation_count = stats.free_count
        => /\ Magic(K, 0) = MEMORY_MAGIC_FREE
           /\ Size(K, 0) = HEAP_SIZE
           /\ free_list = 0
           /\ NextOf(K, 0) = NULL
           /\ PrevOf(K, 0) = NULL
           /\ stats.free_heap_size = memory_init(K).stats.free_heap_size
           /\ stats.used_heap_size = memory_init(K).stats.used_heap_size

\* three blocks were allocated and all three freed
W21_ThreeAllocatedAndFreed ==
    /\ stats.allocation_count = 3
    /\ stats.free_count = 3
    /\ Cardinality(handed) >= 2

\* C22: no two blocks next to each other in the heap walk are both FREE.
C22_NoAdjacentFreeBlocks ==
    \A i \in 1 .. (Len(HeapWalk) - 1) :
        ~(/\ Magic(K, HeapWalk[i]) = MEMORY_MAGIC_FREE
          /\ Magic(K, HeapWalk[i + 1]) = MEMORY_MAGIC_FREE)

\* a free block lies between two used ones after a free: the block freed had
\* a free neighbour and was merged with it
W22_MergedBetweenUsed ==
    /\ Len(HeapWalk) = 3
    /\ Magic(K, HeapWalk[1]) = MEMORY_MAGIC_USED
    /\ Magic(K, HeapWalk[2]) = MEMORY_MAGIC_FREE
    /\ Magic(K, HeapWalk[3]) = MEMORY_MAGIC_USED
    /\ Size(K, HeapWalk[2]) >= 2 * MIN_BLOCK_SIZE
    /\ stats.free_count >= 2

\* C23: the largest free block reported is the payload size of the largest
\* FREE block of the heap, and 0 when no block is FREE.
C23_LargestFreeBlockReported ==
    C20_HeapWalkIntegrity
        => stats.largest_free_block =
               IF FreeBlocks = {} THEN 0
               ELSE (CHOOSE n \in {Size(K, b) : b \in FreeBlocks} :
                        \A b \in FreeBlocks : Size(K, b) <= n)
                    - sizeof_memory_block_t

\* C24: queue_send with timeout 0 on a full queue returns QUEUE_FULL and
\* queue_receive with timeout 0 on an empty queue returns QUEUE_EMPTY, and
\* neither changes anything: the buffer, head, tail, count, both waiter
\* lists and every task's state are as before the call.
C24_NonBlockingFailsClean ==
    \A q \in QueueIds :
        /\ Full(q) =>
               \A data \in 0 .. MaxVal :
                   queue_send(K, q, data, 0) = Returning(K, "QUEUE_FULL")
        /\ (queues[q].is_active /\ queues[q].count = 0) =>
               queue_receive(K, q, 0) = Returning(K, "QUEUE_EMPTY")

\* a queue is full while a task is running that a blocking send would park,
\* and items have been received from it before
W24_FullWithCallerToPark ==
    \E q \in QueueIds :
        /\ Full(q)
        /\ task_get_current(K) # NULL
        /\ task_table[task_get_current(K)].state = "RUNNING"
        /\ Len(received[q]) >= 1

\* C25: when no FREE block of the heap is as large as the aligned request
\* (the request with the header added, rounded up to the alignment and to
\* the minimum block size, as memory_alloc computes it), memory_alloc
\* returns null, counts one more failed allocation and changes nothing else:
\* the heap, the free list and the other statistics stay as they are.
C25_FailedAllocChangesNothing ==
    \A size \in ArgSizes \ {0} :
        (\A b \in FreeBlocks : ULess(Size(K, b), AlignedSize(size)))
            => memory_alloc(K, size) =
                   [K EXCEPT !.stats.failed_allocations = @ + 1,
                             !.ret = NULL]

\* an allocation has failed while the heap still has a FREE block, too
\* small for the request, between or beside USED ones
W25_FailedOnFragmentedHeap ==
    /\ stats.failed_allocations >= 1
    /\ C20_HeapWalkIntegrity
    /\ FreeBlocks # {}
    /\ \E size \in ArgSizes \ {0} :
           \A b \in FreeBlocks : ULess(Size(K, b), AlignedSize(size))

\* C26: memory_free of a pointer handed out earlier whose block is not USED
\* now (freed since, merged into a neighbour or not) returns RTOS_ERROR and
\* changes nothing: heap, free list and statistics are as before.  No block
\* is on the free list twice.  The property is stated for a sound heap, that
\* is, up to the first free that goes wrong.
C26_BadFreeRejected ==
    HeapSound
        => /\ \A ptr \in handed \ UsedPointers :
                  memory_free(K, ptr) = Returning(K, "RTOS_ERROR")
           /\ \A i, j \in 1 .. Len(FreeList) :
                  FreeList[i] = FreeList[j] => i = j

\* the priorities whose ready queue is not empty
NonEmptyPriorities == {p \in Priorities : ready_queues[p] # NULL}

\* what scheduler_get_next_task promises of its result next in snapshot k:
\* the head of the highest non-empty ready queue, of a priority no lower
\* than any task linked into a ready queue; the idle task when all queues
\* are empty
NextTaskAsSpecified(k, next) ==
    LET ne == {p \in Priorities : k.ready_queues[p] # NULL}
    IN  IF ne = {} THEN next = task_get_tcb(k, k.idle_task_id)
        ELSE /\ next # NULL
             /\ \A p \in ne : p <= k.task_table[next].priority
             /\ next = k.ready_queues[k.task_table[next].priority]
             /\ \A p \in Priorities :
                    \A t \in Reach(k.task_table, k.ready_queues[p], {}) :
                        k.task_table[t].priority
                            <= k.task_table[next].priority

\* the snapshot with every ready queue emptied
NoneReady == [K EXCEPT !.ready_queues = [p \in Priorities |-> NULL]]

C28_LockHoldsRunningUnlockSwitches ==
    [][/\ (/\ scheduler_locked
           /\ \/ Call_scheduler_tick
              \/ Call_scheduler_yield
              \/ Call_scheduler_switch_context)
          => {t \in TaskIds : task_table'[t].state = "RUNNING"}
                 = RunningTasks
       /\ (Call_scheduler_unlock /\ scheduler_running)
          => /\ ~scheduler_locked'
             /\ {t \in TaskIds : task_table'[t].state = "RUNNING"}
                    = {scheduler_get_next_task(scheduler_unlock(K))}]_vars

\* the tasks on the two waiter lists of queue q
Waiters(q) ==
    Range(queues[q].send_waiting_tasks)
        \cup Range(queues[q].receive_waiting_tasks)

\* every queue_send and queue_receive on queue q in snapshot k is refused
Refused(k, q) ==
    \A timeout_ms \in ArgTimeouts :
        /\ \A data \in 1 .. MaxVal :
               queue_send(k, q, data, timeout_ms).ret = "QUEUE_ERROR"
        /\ queue_receive(k, q, timeout_ms).ret = "QUEUE_ERROR"

\* every queue_create that succeeds on queue q in snapshot k leaves it
\* active, with no items and no waiters
CreatedFresh(k, q) ==
    \A size \in 1 .. MaxQueueSize :
        LET k2 == queue_create(k, q, size, TRUE)
        IN  /\ k2.ret = "QUEUE_SUCCESS"
            /\ k2.queues[q].is_active
            /\ k2.queues[q].count = 0
            /\ k2.queues[q].send_waiting_tasks = <<>>
            /\ k2.queues[q].receive_waiting_tasks = <<>>

C30_CriticalSectionRestoresMask ==
    /\ scheduler_lock(K).PRIMASK = PRIMASK
    /\ scheduler_unlock(K).PRIMASK = PRIMASK
    /\ \A timer_id \in ArgTimerIds :
           /\ timer_start_timer(K, timer_id).PRIMASK = PRIMASK
           /\ timer_stop_timer(K, timer_id).PRIMASK = PRIMASK

\* C31: under preemption between two tasks' semaphore_take and
\* semaphore_give calls, no state is reached where a task sits on the
\* waiter list of an active semaphore whose count is above zero.
C31_NoWaiterWhileCountPositive ==
    \A s \in SemaphoreIds :
        semaphores[s].is_active =>
            ~(semaphores[s].count > 0
                  /\ Len(semaphores[s].waiting_tasks) > 0)

\* C32: a task that scheduler_switch_context or scheduler_start (called
\* directly or through scheduler_yield, scheduler_tick, scheduler_unlock)
\* makes RUNNING was READY before: a BLOCKED, SUSPENDED or DELETED task is
\* never promoted.
C32_OnlyReadyPromoted ==
    [][\A t \in TaskIds :
           (task_table'[t].state = "RUNNING" /\ task_table[t].state # "RUNNING")
               => task_table[t].state = "READY"]_vars

\* the TCBs linked into the ready queue of priority p
Ring(p) == Reach(task_table, ready_queues[p], {})

\* C33: after any task_create and task_delete calls every ready queue is a
\* well-formed circular doubly-linked list (next and prev agree, next leads
\* from the head back to the head) and no TCB is on two ready queues.
C33_ReadyQueuesWellFormed ==
    /\ \A p \in Priorities :
           ready_queues[p] # NULL =>
               /\ \A t \in Ring(p) :
                      /\ task_table[t].next # NULL
                      /\ task_table[t].prev # NULL
                      /\ task_table[task_table[t].next].prev = t
                      /\ task_table[task_table[t].prev].next = t
               /\ \E t \in Ring(p) : task_table[t].next = ready_queues[p]
    /\ \A p, q \in Priorities : p # q => Ring(p) \cap Ring(q) = {}

\* task c is the one RUNNING task of a running, unlocked scheduler, the
\* task after it on its ready ring is a READY peer of its priority, and no
\* task of a higher priority is READY
YieldsToPeer(c) ==
    /\ scheduler_running
    /\ ~scheduler_locked
    /\ c = task_get_current(K)
    /\ RunningTasks = {c}
    /\ OnReadyQueue(c, task_table[c].priority)
    /\ task_table[c].next # c
    /\ task_table[task_table[c].next].state = "READY"
    /\ task_table[task_table[c].next].priority = task_table[c].priority
    /\ \A t \in TaskIds :
           task_table[t].state = "READY" =>
               task_table[t].priority <= task_table[c].priority

\* C34: when the RUNNING task calls scheduler_yield while a READY peer of
\* its priority exists and no higher-priority task is READY, the caller is
\* READY with a full time slice afterwards and the next task in round-robin
\* order is RUNNING.
C34_YieldHandsOverToPeer ==
    [][\A c \in TaskIds :
           (Call_scheduler_yield /\ YieldsToPeer(c)) =>
               /\ task_table'[c].state = "READY"
               /\ task_table'[c].time_slice_remaining = TIME_SLICE_MS
               /\ task_table'[task_table[c].next].state = "RUNNING"]_vars

\* C35: a task BLOCKED by task_delay(n), n >= 0, while the ticks of the
\* longest delay are still to come, is READY again eventually.
C35_DelayedTaskWakes ==
    \A t \in TaskIds :
        (/\ task_table[t].state = "BLOCKED"
         /\ total_scheduler_calls + MaxDelay <= MaxTicks)
            ~> (task_table[t].state = "READY")

\* C36: a SUSPENDED task leaves that state only by task_resume, to READY,
\* or by task_delete: no tick, delay expiry, context switch or wake-up
\* makes it READY or RUNNING.
C36_SuspendedUntilResumed ==
    [][\A t \in TaskIds :
           (task_table[t].state = "SUSPENDED"
                /\ task_table'[t].state # "SUSPENDED")
               => \/ /\ task_table'[t].state = "READY"
                     /\ task_table' = task_resume(K, t).task_table
                  \/ task_table'[t].state = "DELETED"]_vars

\* C37: a scheduler_tick taken while the scheduler is locked leaves every
\* ready queue as it was, the head of the RUNNING task's priority included,
\* even when the time slice has run out.
C37_LockedTickKeepsReadyQueues ==
    [][(RR_scheduler_tick /\ scheduler_locked) =>
           /\ ready_queues' = ready_queues
           /\ \A t \in TaskIds :
                  /\ task_table'[t].next = task_table[t].next
                  /\ task_table'[t].prev = task_table[t].prev]_vars

\* C38: between ticks every active RUNNING software timer has
\* 1 <= remaining_ms <= period_ms, whatever timer calls and ticks were taken;
\* a tick leaves a timer that is STOPPED, EXPIRED or deleted as it is and
\* does not run its callback.
C38_RunningTimerWithinPeriod ==
    \A i \in TimerIds :
        LET timer == software_timers[i]
            tick == timer_interrupt_handler([K EXCEPT !.timer_running = TRUE])
        IN  /\ (timer.is_active /\ timer.state = "RUNNING")
                   => /\ 1 <= timer.remaining_ms
                      /\ timer.remaining_ms <= timer.period_ms
            /\ ~(timer.is_active /\ timer.state = "RUNNING")
                   => /\ tick.software_timers[i] = timer
                      /\ i \notin tick.out

\* a periodic timer has expired, been reloaded and counted down to its last
\* millisecond again after its period was changed while it ran
W38_ReloadedTimerAtLastTick ==
    \E i \in TimerIds :
        /\ software_timers[i].is_active
        /\ software_timers[i].type = "PERIODIC"
        /\ software_timers[i].state = "RUNNING"
        /\ software_timers[i].period_ms >= 2
        /\ software_timers[i].remaining_ms = 1
        /\ timer_log[i].fired >= 1
        /\ ~timer_log[i].alone

\* C39: under any sequence of memory_alloc and memory_free the byte counters
\* free_heap_size and used_heap_size stay within 0 .. HEAP_SIZE as uint32_t
\* values (a wrapped counter reads as a negative number here) and their sum
\* stays what memory_init made it.
C39_ByteCountersNeverWrap ==
    /\ stats.free_heap_size \in 0 .. HEAP_SIZE
    /\ stats.used_heap_size \in 0 .. HEAP_SIZE
    /\ stats.used_heap_size + stats.free_heap_size
           = memory_init(K).stats.used_heap_size
                 + memory_init(K).stats.free_heap_size

\* C40: with TICK_RATE_HZ = 1000 the conversions are exact for every
\* 32-bit value: timer_get_uptime_ms() is the system tick counter,
\* timer_ms_to_ticks(ms) is ms, and a tick that does not wrap the tick
\* counter to 0 does not lower the uptime.
C40_ConversionsExact ==
    /\ timer_get_uptime_ms(K).ret = timer_get_ticks(K).ret
    /\ \A ms \in ArgTicks : timer_ms_to_ticks(ms) = ms
    /\ LET after == timer_interrupt_handler(K)
       IN  after.system_tick_counter # 0
               => ~ULess(timer_get_uptime_ms(after).ret,
                         timer_get_uptime_ms(K).ret)

====
